---------------------------- MODULE Spec2Model ----------------------------
(***************************************************************************)
(* Two WebRTCService instances (src/unnamed/part_001) joined to one room   *)
(* through the signaling server.  Every async method is cut at its awaits: *)
(* the synchronous first segment runs when the socket event or callback    *)
(* fires, each later segment runs when the awaited engine operation or     *)
(* media capture settles.                                                  *)
(***************************************************************************)
EXTENDS Integers, Sequences, FiniteSets, TLC

\* ------------------------------------------------------------- bounds
\* spontaneous events of the environment in one run: the engine raising
\* negotiationneeded or gathering a candidate, an operation failing although
\* it is legal, the signaling server delivering an envelope twice
MaxEvents == 3
\* handler runs suspended at an await, per peer
MaxTasks == 3
\* calls of disconnect, per peer
MaxDisconnects == 2

Peers == {1, 2}
Other(p) == 3 - p

\* the room both participants join
Room == "room"

\* participant identifiers: strings as sequences of code units
Ids == {<<1, 2>>, <<2>>}
\* a wider choice for the role assignment: prefixes, equal first units
IdsRole == {<<1>>, <<1, 1>>, <<1, 2>>, <<2>>, <<2, 1>>}

VARIABLES
  userId,          \* this.userId
  peerConnection,  \* this.peerConnection: 0 is null, n > 0 the n-th object created
  sigState,        \* this.peerConnection.signalingState
  sdp,             \* the connection's current / pending local and remote descriptions
  makingOffer,     \* this.makingOffer
  ignoreOffer,     \* this.ignoreOffer
  isPolite,        \* this.isPolite
  localStream,     \* this.localStream # null
  chain,           \* handler runs awaiting a peer-connection operation, oldest first
  gum,             \* handler runs awaiting mediaDevices.getUserMedia
  net,             \* envelopes the server has relayed to this socket, oldest first
  offerSeq,        \* offers this peer's engine has created
  events,          \* spontaneous environment events still allowed
  offerLog,        \* how each valid inbound offer was decided, oldest first
  iceLog,          \* outcomes of the addIceCandidate calls, oldest first
  audioTransceiver,  \* how this.audioTransceiver's sender got its track; "absent"
                     \* when addTransceiver threw and the field is undefined
  videoTransceiver,  \* the same for this.videoTransceiver
  extraSenders,    \* senders of the connection outside the two transceivers
  dataChannel,     \* this.dataChannel.readyState, "null" without a channel
  sent,            \* envelopes emitted that the server keeps: join, call control;
                   \* also what the socket queues while it is not connected yet
  dc,              \* strings in flight on the data channel towards this peer
  chatMessages,    \* what callbacks.onChatMessage was handed, oldest first
  roster,          \* what callbacks.onRoomUpdate was handed last
  socket,          \* this.socket: 0 is null, 1 connected, 2 connecting, 3 failed to connect
  roomId,          \* this.roomId
  callbacks,       \* this.callbacks # null
  chatCalls,       \* calls of sendChatMessage so far
  console,         \* what the handlers wrote to the console: errors caught, offers sent
  isInitialized,   \* this.isInitialized
  initPending,     \* initialize is awaiting initializeSocket
  initResult,      \* how the last initialize call settled for its caller
  disconnectCalls, \* calls of disconnect so far
  liveSockets,     \* sockets created by io() and not disconnected since
  released,        \* what the disconnect calls closed or stopped, oldest first
  callEvents,      \* what callbacks.onCallEvents was handed, oldest first
  uiLocalStream,   \* VideoCallScreen's localStream state # null
  chatSent,        \* the texts passed to sendChatMessage, oldest first
  unhandled,       \* promises of the service rejected with nobody awaiting them
  roomEnvelope     \* the clients field of the room:update / joined data handled last

\* what initializePeerConnection and its callers set up besides the connection
rebuilt == <<audioTransceiver, videoTransceiver, extraSenders, dataChannel, sent>>
\* what the negotiation code never touches
session == <<dc, chatMessages, roster, socket, roomId, callbacks, chatCalls>>

\* the service's lifecycle and what it hands to its caller
facade == <<isInitialized, initPending, initResult, disconnectCalls, liveSockets, released,
            callEvents, uiLocalStream, chatSent, unhandled, roomEnvelope>>

vars == <<userId, peerConnection, sigState, sdp, makingOffer, ignoreOffer,
          isPolite, localStream, chain, gum, net, offerSeq, events,
          offerLog, iceLog, rebuilt, session, console, facade>>

\* ------------------------------------------------------------- descriptions
\* a session description {type, sdp}; the sdp text is identified by its
\* creator and the offer it belongs to; by = 0 is a missing sdp text
None == [type |-> "", by |-> 0, n |-> 0]
NoSdp == [cl |-> None, cr |-> None, pl |-> None, pr |-> None]

LocalDescription(p) == IF sdp[p].pl # None THEN sdp[p].pl ELSE sdp[p].cl
RemoteDescription(p) == IF sdp[p].pr # None THEN sdp[p].pr ELSE sdp[p].cr

\* ------------------------------------------------------------- role
\* a comparison that orders by length first, as numbers are ordered
StrGreaterByLength(a, b) ==
  \/ Len(a) > Len(b)
  \/ /\ Len(a) = Len(b)
     /\ \E i \in 1..Len(a) : a[i] > b[i] /\ \A j \in 1..(i - 1) : a[j] = b[j]

RECURSIVE StrGreater(_, _)
\* JavaScript a > b on strings: code units compared left to right, a proper
\* prefix is the smaller string
StrGreater(a, b) ==
  IF a = <<>> THEN FALSE
  ELSE IF b = <<>> THEN TRUE
  ELSE IF Head(a) # Head(b) THEN Head(a) > Head(b)
  ELSE StrGreater(Tail(a), Tail(b))

\* !!this.userId && !!data.sender && String(this.userId) > String(data.sender)
IsPoliteFor(uid, sender) ==
  /\ uid # <<>>
  /\ sender # <<>>
  /\ StrGreater(uid, sender)

\* a collision test that looks at makingOffer alone
OfferCollisionMakingOnly(p) == makingOffer[p]

\* makingOffer || signalingState !== 'stable'
OfferCollision(p) == makingOffer[p] \/ sigState[p] # "stable"

\* a validation that only looks for the sdp field
ValidSdpPresentOnly(data) == data.sdp # None

\* !data.sdp || !data.sdp.type || !data.sdp.sdp
ValidSdp(data) == data.sdp # None /\ data.sdp.type # "" /\ data.sdp.by # 0

\* ------------------------------------------------------------- engine
\* whether RTCPeerConnection accepts the operation of task t in the
\* connection's signaling state
Legal(p, t) ==
  CASE t.op = "createOffer" -> sigState[p] # "closed"
    [] t.op = "createAnswer" -> sigState[p] = "have-remote-offer"
    [] t.op = "setLocal" ->
         IF t.sdp.type = "offer"
         THEN sigState[p] \in {"stable", "have-local-offer"}
         ELSE sigState[p] = "have-remote-offer"
    [] t.op = "setRemote" ->
         IF t.sdp.type = "offer"
         THEN sigState[p] \in {"stable", "have-remote-offer", "have-local-offer"}
         ELSE sigState[p] = "have-local-offer"
    [] t.op = "addIce" -> sigState[p] # "closed" /\ RemoteDescription(p) # None
    [] OTHER -> FALSE

\* a remote offer on top of an outstanding local offer needs the engine's
\* implicit rollback, which not every build of the engine performs
NeedsRollback(p, t) ==
  t.op = "setRemote" /\ t.sdp.type = "offer" /\ sigState[p] = "have-local-offer"

\* how an awaited operation can settle: "ok", or rejected with an error whose
\* message does ("conflict") or does not ("other") contain 'error_content'
\* or 'InvalidStateError'
Outcomes(p, t) ==
  (IF Legal(p, t) THEN {"ok"} ELSE {}) \cup
  (IF ~Legal(p, t) \/ NeedsRollback(p, t) \/ events > 0
   THEN {"conflict", "other"} ELSE {})

Injected(p, t, o) ==
  IF o # "ok" /\ Legal(p, t) /\ ~NeedsRollback(p, t) THEN 1 ELSE 0

\* the descriptions and state after setLocalDescription(d) succeeded
SdpAfterLocal(p, d) ==
  IF d.type = "offer"
  THEN [sdp[p] EXCEPT !.pl = d]
  ELSE [cl |-> d, cr |-> sdp[p].pr, pl |-> None, pr |-> None]

\* a setRemoteDescription that leaves an outstanding local offer in place
SdpAfterRemoteKeepLocal(p, d) ==
  IF d.type = "offer"
  THEN [sdp[p] EXCEPT !.pr = d]
  ELSE [cl |-> sdp[p].pl, cr |-> d, pl |-> None, pr |-> None]

\* the descriptions after setRemoteDescription(d) succeeded; a remote offer
\* rolls an outstanding local offer back
SdpAfterRemote(p, d) ==
  IF d.type = "offer"
  THEN [sdp[p] EXCEPT !.pr = d, !.pl = None]
  ELSE [cl |-> sdp[p].pl, cr |-> d, pl |-> None, pr |-> None]

StateAfterLocal(d) == IF d.type = "offer" THEN "have-local-offer" ELSE "stable"
StateAfterRemote(d) == IF d.type = "offer" THEN "have-remote-offer" ELSE "stable"

\* ------------------------------------------------------------- helpers
Task(k, o, d) == [kind |-> k, op |-> o, sdp |-> d]
Capture(k, n, d) == [kind |-> k, try |-> n, sdp |-> d]
TasksOf(p) == Len(chain[p]) + Cardinality(gum[p])

\* a payload without the room id
EnvelopeNoRoom(ty, p, d) == [type |-> ty, sender |-> userId[p], sdp |-> d]

Envelope(ty, p, d) ==
  [type |-> ty, roomId |-> roomId[p], sender |-> userId[p], sdp |-> d]

\* this.socket?.emit(type, {roomId, sdp, sender}): relayed to the other
\* member when its socket is connected
Emit(p, ty, d) ==
  IF socket[p] # 0 /\ socket[Other(p)] = 1
  THEN [net EXCEPT ![Other(p)] = Append(@, Envelope(ty, p, d))]
  ELSE net

\* no room:update or joined event handled yet
NoEnvelope == [handled |-> FALSE, hasClients |-> FALSE, clients |-> <<>>]

\* ------------------------------------------------------------- Init
\* both services initialized with distinct identifiers from ids, the screen's
\* startLocalStream in flight, n environment events allowed, each on an engine
\* whose addTransceiver left the slots in one of the states of slots
InitOn(ids, n, slots) ==
  /\ userId \in {f \in [Peers -> ids] : f[1] # f[2]}
  /\ peerConnection = [p \in Peers |-> 1]
  /\ sigState = [p \in Peers |-> "stable"]
  /\ sdp = [p \in Peers |-> NoSdp]
  /\ makingOffer = [p \in Peers |-> FALSE]
  /\ ignoreOffer = [p \in Peers |-> FALSE]
  /\ isPolite = [p \in Peers |-> FALSE]
  /\ localStream = [p \in Peers |-> FALSE]
  /\ chain = [p \in Peers |-> <<>>]
  /\ gum = [p \in Peers |-> {Capture("startLocalStream", 1, None)}]
  /\ net = [p \in Peers |-> <<>>]
  /\ offerSeq = [p \in Peers |-> 0]
  /\ events = n
  /\ offerLog = [p \in Peers |-> <<>>]
  /\ iceLog = [p \in Peers |-> <<>>]
  /\ audioTransceiver \in [Peers -> slots]
  /\ videoTransceiver = audioTransceiver
  /\ extraSenders = [p \in Peers |-> 0]
  /\ dataChannel = [p \in Peers |-> "connecting"]
  /\ sent = [p \in Peers |-> <<[type |-> "join", roomId |-> Room]>>]
  /\ dc = [p \in Peers |-> <<>>]
  /\ chatMessages = [p \in Peers |-> <<>>]
  /\ roster = [p \in Peers |-> <<>>]
  /\ socket = [p \in Peers |-> 1]
  /\ roomId = [p \in Peers |-> Room]
  /\ callbacks = [p \in Peers |-> TRUE]
  /\ chatCalls = [p \in Peers |-> 0]
  /\ console = [p \in Peers |-> <<>>]
  /\ isInitialized = [p \in Peers |-> TRUE]
  /\ initPending = [p \in Peers |-> FALSE]
  /\ initResult = [p \in Peers |-> "ok"]
  /\ disconnectCalls = [p \in Peers |-> 0]
  /\ liveSockets = [p \in Peers |-> 1]
  /\ released = [p \in Peers |-> <<>>]
  /\ callEvents = [p \in Peers |-> <<>>]
  /\ uiLocalStream = [p \in Peers |-> FALSE]
  /\ chatSent = [p \in Peers |-> <<>>]
  /\ unhandled = [p \in Peers |-> 0]
  /\ roomEnvelope = [p \in Peers |-> NoEnvelope]

\* the same on engines that support addTransceiver
InitWith(ids, n) == InitOn(ids, n, {"none"})

Init == InitWith(Ids, MaxEvents)
\* engines with and without addTransceiver
InitSlots == InitOn(Ids, MaxEvents, {"none", "absent"})
InitRole == InitWith(IdsRole, MaxEvents - 1)
InitSession == InitWith(Ids, MaxEvents)

\* ------------------------------------------------------------- recovery
\* peerConnection.addTrack for the stream's audio and video track on a
\* connection whose two transceivers have no track yet: the engine either
\* binds each track to the unused transceiver of its kind or creates a new
\* sender for it
AddTrack(reuse) ==
  IF reuse THEN [slot |-> "addTrack", extra |-> 0]
  ELSE [slot |-> "none", extra |-> 2]

\* a recovery that joins the room again on the way
RecoverFromSDPErrorRejoining(p, r) ==
  /\ peerConnection' = [peerConnection EXCEPT ![p] = IF r = "ok" THEN @ + 1 ELSE @]
  /\ sigState' = [sigState EXCEPT ![p] = IF r = "ok" THEN "stable" ELSE "closed"]
  /\ sdp' = [sdp EXCEPT ![p] = IF r = "ok" THEN NoSdp ELSE @]
  /\ chain' = [chain EXCEPT ![p] = <<>>]
  /\ dataChannel' = [dataChannel EXCEPT ![p] = IF r = "ok" THEN "connecting" ELSE "closed"]
  /\ IF r = "ok"
     THEN \E reuse \in (IF localStream[p] /\ audioTransceiver[p] # "absent"
                        THEN BOOLEAN ELSE {TRUE}) :
            LET how == IF audioTransceiver[p] = "absent"
                       THEN [slot |-> "absent", extra |-> IF localStream[p] THEN 2 ELSE 0]
                       ELSE IF localStream[p] THEN AddTrack(reuse)
                       ELSE [slot |-> "none", extra |-> 0] IN
            /\ audioTransceiver' = [audioTransceiver EXCEPT ![p] = how.slot]
            /\ videoTransceiver' = [videoTransceiver EXCEPT ![p] = how.slot]
            /\ extraSenders' = [extraSenders EXCEPT ![p] = how.extra]
     ELSE UNCHANGED <<audioTransceiver, videoTransceiver, extraSenders>>
  /\ sent' = [sent EXCEPT ![p] = Append(@, [type |-> "join", roomId |-> roomId[p]])]

\* recoverFromSDPError: close the connection, initializePeerConnection, re-add
\* the tracks; r = "fail" is the constructor throwing, which the method's own
\* catch logs, leaving this.peerConnection the closed object.  Operations
\* still pending on the closed connection never settle.
RecoverFromSDPError(p, r) ==
  /\ peerConnection' = [peerConnection EXCEPT ![p] = IF r = "ok" THEN @ + 1 ELSE @]
  /\ sigState' = [sigState EXCEPT ![p] = IF r = "ok" THEN "stable" ELSE "closed"]
  /\ sdp' = [sdp EXCEPT ![p] = IF r = "ok" THEN NoSdp ELSE @]
  /\ chain' = [chain EXCEPT ![p] = <<>>]
  /\ dataChannel' = [dataChannel EXCEPT ![p] = IF r = "ok" THEN "connecting" ELSE "closed"]
  /\ IF r = "ok"
     THEN \E reuse \in (IF localStream[p] /\ audioTransceiver[p] # "absent"
                        THEN BOOLEAN ELSE {TRUE}) :
            LET how == IF audioTransceiver[p] = "absent"
                       THEN [slot |-> "absent", extra |-> IF localStream[p] THEN 2 ELSE 0]
                       ELSE IF localStream[p] THEN AddTrack(reuse)
                       ELSE [slot |-> "none", extra |-> 0] IN
            /\ audioTransceiver' = [audioTransceiver EXCEPT ![p] = how.slot]
            /\ videoTransceiver' = [videoTransceiver EXCEPT ![p] = how.slot]
            /\ extraSenders' = [extraSenders EXCEPT ![p] = how.extra]
     ELSE UNCHANGED <<audioTransceiver, videoTransceiver, extraSenders>>
  /\ UNCHANGED sent

\* a catch block that recreates the connection whatever the error's message
CatchSdpErrorAnyCause(p, o, used, rest) ==
  /\ console' = [console EXCEPT ![p] = Append(@, o)]
  /\ \E r \in {"ok"} \cup (IF events - used > 0 THEN {"fail"} ELSE {}) :
       /\ RecoverFromSDPError(p, r)
       /\ events' = events - used - (IF r = "fail" THEN 1 ELSE 0)

\* the catch block of handleOffer / handleAnswer for an operation that settled
\* with error class o; used counts the failures injected into this step, rest
\* is the chain without the failed run
CatchSdpError(p, o, used, rest) ==
  /\ console' = [console EXCEPT ![p] = Append(@, o)]
  /\ IF o = "conflict"
     THEN \E r \in {"ok"} \cup (IF events - used > 0 THEN {"fail"} ELSE {}) :
            /\ RecoverFromSDPError(p, r)
            /\ events' = events - used - (IF r = "fail" THEN 1 ELSE 0)
     ELSE /\ chain' = [chain EXCEPT ![p] = rest]
          /\ events' = events - used
          /\ UNCHANGED <<peerConnection, sigState, sdp, rebuilt>>

\* ------------------------------------------------------------- onnegotiationneeded
\* the engine raises negotiationneeded (in the stable state only); the
\* handler sets makingOffer and awaits createOffer
OnNegotiationNeeded(p) ==
  /\ events > 0
  /\ peerConnection[p] # 0
  /\ sigState[p] = "stable"
  /\ TasksOf(p) < MaxTasks
  /\ events' = events - 1
  /\ makingOffer' = [makingOffer EXCEPT ![p] = TRUE]
  /\ chain' = [chain EXCEPT ![p] = Append(@, Task("onnegotiationneeded", "createOffer", None))]
  /\ UNCHANGED <<console, rebuilt, session, facade, userId, peerConnection, sigState, sdp, ignoreOffer, isPolite,
                 localStream, gum, net, offerSeq, offerLog, iceLog>>

\* createOffer settled: on success await setLocalDescription(offer), on
\* failure log and clear makingOffer in the finally
OnNegotiationNeededAfterCreateOffer(p) ==
  /\ chain[p] # <<>>
  /\ LET t == Head(chain[p]) IN
     /\ t.kind = "onnegotiationneeded" /\ t.op = "createOffer"
     /\ \E o \in Outcomes(p, t) :
          /\ events' = events - Injected(p, t, o)
          /\ IF o = "ok"
             THEN /\ offerSeq' = [offerSeq EXCEPT ![p] = @ + 1]
                  /\ chain' = [chain EXCEPT ![p] = Append(Tail(@),
                        Task("onnegotiationneeded", "setLocal",
                             [type |-> "offer", by |-> p, n |-> offerSeq[p] + 1]))]
                  /\ UNCHANGED makingOffer
             ELSE /\ chain' = [chain EXCEPT ![p] = Tail(@)]
                  /\ makingOffer' = [makingOffer EXCEPT ![p] = FALSE]
                  /\ UNCHANGED offerSeq
  /\ UNCHANGED <<console, rebuilt, session, facade, userId, peerConnection, sigState, sdp, ignoreOffer, isPolite,
                 localStream, gum, net, offerLog, iceLog>>

\* a handler that clears makingOffer only after the offer was sent
OnNegotiationNeededAfterSetLocalNoFinally(p) ==
  /\ chain[p] # <<>>
  /\ LET t == Head(chain[p]) IN
     /\ t.kind = "onnegotiationneeded" /\ t.op = "setLocal"
     /\ \E o \in Outcomes(p, t) :
          /\ events' = events - Injected(p, t, o)
          /\ IF o = "ok"
             THEN /\ sdp' = [sdp EXCEPT ![p] = SdpAfterLocal(p, t.sdp)]
                  /\ sigState' = [sigState EXCEPT ![p] = StateAfterLocal(t.sdp)]
                  /\ net' = Emit(p, "offer", t.sdp)
                  /\ console' = [console EXCEPT ![p] = Append(@, "Negotiationneeded: offer sent")]
                  /\ makingOffer' = [makingOffer EXCEPT ![p] = FALSE]
             ELSE UNCHANGED <<console, sdp, sigState, net, makingOffer>>
  /\ chain' = [chain EXCEPT ![p] = Tail(@)]
  /\ UNCHANGED <<rebuilt, session, facade, userId, peerConnection, ignoreOffer, isPolite,
                 localStream, gum, offerSeq, offerLog, iceLog>>

\* setLocalDescription(offer) settled: on success emit the offer envelope
\* carrying localDescription; makingOffer is cleared either way
OnNegotiationNeededAfterSetLocal(p) ==
  /\ chain[p] # <<>>
  /\ LET t == Head(chain[p]) IN
     /\ t.kind = "onnegotiationneeded" /\ t.op = "setLocal"
     /\ \E o \in Outcomes(p, t) :
          /\ events' = events - Injected(p, t, o)
          /\ IF o = "ok"
             THEN /\ sdp' = [sdp EXCEPT ![p] = SdpAfterLocal(p, t.sdp)]
                  /\ sigState' = [sigState EXCEPT ![p] = StateAfterLocal(t.sdp)]
                  /\ net' = Emit(p, "offer", t.sdp)
                  /\ console' = [console EXCEPT ![p] = Append(@, "Negotiationneeded: offer sent")]
             ELSE UNCHANGED <<console, sdp, sigState, net>>
  /\ chain' = [chain EXCEPT ![p] = Tail(@)]
  /\ makingOffer' = [makingOffer EXCEPT ![p] = FALSE]
  /\ UNCHANGED <<rebuilt, session, facade, userId, peerConnection, ignoreOffer, isPolite, localStream, gum,
                 offerSeq, offerLog, iceLog>>

\* ------------------------------------------------------------- handleOffer
\* a drop decision that looks at the collision alone
IgnoreDecisionAnyCollision(p, s) == OfferCollision(p)

\* this.ignoreOffer = !this.isPolite && offerCollision, for an offer from sender s
IgnoreDecision(p, s) == ~IsPoliteFor(userId[p], s) /\ OfferCollision(p)

\* what handleOffer does with a valid offer from sender s: return early, or go
\* on to apply it (under a collision or not)
OfferDecision(p, s) ==
  IF IgnoreDecision(p, s) THEN "dropped"
  ELSE IF OfferCollision(p) THEN "acceptedCollision"
  ELSE "accepted"

\* socket.on('offer'): the synchronous part of handleOffer, up to its first await
HandleOffer(p) ==
  /\ net[p] # <<>>
  /\ Head(net[p]).type = "offer"
  /\ TasksOf(p) < MaxTasks
  /\ console' = [console EXCEPT ![p] =
                  IF peerConnection[p] # 0 /\ ~ValidSdp(Head(net[p]))
                  THEN Append(@, "invalid") ELSE @]
  /\ net' = [net EXCEPT ![p] = Tail(@)]
  /\ LET data == Head(net[p]) IN
     IF peerConnection[p] = 0 \/ ~ValidSdp(data)
     THEN UNCHANGED <<isPolite, ignoreOffer, offerLog, gum, chain>>
     ELSE /\ isPolite' = [isPolite EXCEPT ![p] = IsPoliteFor(userId[p], data.sender)]
          /\ ignoreOffer' = [ignoreOffer EXCEPT ![p] = IgnoreDecision(p, data.sender)]
          /\ offerLog' = [offerLog EXCEPT ![p] = Append(@, OfferDecision(p, data.sender))]
          /\ IF IgnoreDecision(p, data.sender)
             THEN UNCHANGED <<gum, chain>>
             ELSE IF ~localStream[p]
             THEN /\ gum' = [gum EXCEPT ![p] = @ \cup {Capture("handleOffer", 1, data.sdp)}]
                  /\ UNCHANGED chain
             ELSE /\ chain' = [chain EXCEPT ![p] =
                                 Append(@, Task("handleOffer", "setRemote", data.sdp))]
                  /\ UNCHANGED gum
  /\ UNCHANGED <<rebuilt, session, facade, userId, peerConnection, sigState, sdp, makingOffer, localStream,
                 offerSeq, events, iceLog>>

\* setRemoteDescription(offer) settled: on success await createAnswer
HandleOfferAfterSetRemote(p) ==
  /\ chain[p] # <<>>
  /\ LET t == Head(chain[p]) IN
     /\ t.kind = "handleOffer" /\ t.op = "setRemote"
     /\ \E o \in Outcomes(p, t) :
          IF o = "ok"
          THEN /\ sdp' = [sdp EXCEPT ![p] = SdpAfterRemote(p, t.sdp)]
               /\ sigState' = [sigState EXCEPT ![p] = StateAfterRemote(t.sdp)]
               /\ chain' = [chain EXCEPT ![p] =
                              Append(Tail(@), Task("handleOffer", "createAnswer", t.sdp))]
               /\ UNCHANGED <<peerConnection, events, rebuilt, console>>
          ELSE CatchSdpError(p, o, Injected(p, t, o), Tail(chain[p]))
  /\ UNCHANGED <<session, facade, userId, makingOffer, ignoreOffer, isPolite, localStream, gum, net,
                 offerSeq, offerLog, iceLog>>

\* a handleOffer that emits the answer as soon as it is created, before it is
\* applied as the local description
HandleOfferAfterCreateAnswerEmitting(p) ==
  /\ chain[p] # <<>>
  /\ LET t == Head(chain[p]) IN
     /\ t.kind = "handleOffer" /\ t.op = "createAnswer"
     /\ \E o \in Outcomes(p, t) :
          IF o = "ok"
          THEN /\ chain' = [chain EXCEPT ![p] = Append(Tail(@),
                     Task("handleOffer", "setLocal",
                          [type |-> "answer", by |-> p, n |-> RemoteDescription(p).n]))]
               /\ net' = Emit(p, "answer",
                              [type |-> "answer", by |-> p, n |-> RemoteDescription(p).n])
               /\ UNCHANGED <<peerConnection, sigState, sdp, events, rebuilt, console>>
          ELSE /\ CatchSdpError(p, o, Injected(p, t, o), Tail(chain[p]))
               /\ UNCHANGED net
  /\ UNCHANGED <<session, facade, userId, makingOffer, ignoreOffer, isPolite, localStream, gum,
                 offerSeq, offerLog, iceLog>>

\* createAnswer settled: on success await setLocalDescription(answer)
HandleOfferAfterCreateAnswer(p) ==
  /\ chain[p] # <<>>
  /\ LET t == Head(chain[p]) IN
     /\ t.kind = "handleOffer" /\ t.op = "createAnswer"
     /\ \E o \in Outcomes(p, t) :
          IF o = "ok"
          THEN /\ chain' = [chain EXCEPT ![p] = Append(Tail(@),
                     Task("handleOffer", "setLocal",
                          [type |-> "answer", by |-> p, n |-> RemoteDescription(p).n]))]
               /\ UNCHANGED <<peerConnection, sigState, sdp, events, rebuilt, console>>
          ELSE CatchSdpError(p, o, Injected(p, t, o), Tail(chain[p]))
  /\ UNCHANGED <<session, facade, userId, makingOffer, ignoreOffer, isPolite, localStream, gum, net,
                 offerSeq, offerLog, iceLog>>

\* setLocalDescription(answer) settled: on success emit the answer envelope
HandleOfferAfterSetLocal(p) ==
  /\ chain[p] # <<>>
  /\ LET t == Head(chain[p]) IN
     /\ t.kind = "handleOffer" /\ t.op = "setLocal"
     /\ \E o \in Outcomes(p, t) :
          IF o = "ok"
          THEN /\ sdp' = [sdp EXCEPT ![p] = SdpAfterLocal(p, t.sdp)]
               /\ sigState' = [sigState EXCEPT ![p] = StateAfterLocal(t.sdp)]
               /\ chain' = [chain EXCEPT ![p] = Tail(@)]
               /\ net' = Emit(p, "answer", t.sdp)
               /\ UNCHANGED <<peerConnection, events, rebuilt, console>>
          ELSE /\ CatchSdpError(p, o, Injected(p, t, o), Tail(chain[p]))
               /\ UNCHANGED net
  /\ UNCHANGED <<session, facade, userId, makingOffer, ignoreOffer, isPolite, localStream, gum,
                 offerSeq, offerLog, iceLog>>

\* ------------------------------------------------------------- handleAnswer
\* a handleAnswer that does not consult ignoreOffer
HandleAnswerNoIgnoreCheck(p) ==
  /\ net[p] # <<>>
  /\ Head(net[p]).type = "answer"
  /\ TasksOf(p) < MaxTasks
  /\ console' = [console EXCEPT ![p] =
                  IF peerConnection[p] # 0 /\ ~ValidSdp(Head(net[p]))
                  THEN Append(@, "invalid") ELSE @]
  /\ net' = [net EXCEPT ![p] = Tail(@)]
  /\ LET data == Head(net[p]) IN
     IF peerConnection[p] = 0 \/ ~ValidSdp(data)
     THEN UNCHANGED chain
     ELSE chain' = [chain EXCEPT ![p] =
                      Append(@, Task("handleAnswer", "setRemote", data.sdp))]
  /\ UNCHANGED <<rebuilt, session, facade, userId, peerConnection, sigState, sdp, makingOffer, ignoreOffer,
                 isPolite, localStream, gum, offerSeq, events, offerLog, iceLog>>

\* socket.on('answer'): the synchronous part of handleAnswer
HandleAnswer(p) ==
  /\ net[p] # <<>>
  /\ Head(net[p]).type = "answer"
  /\ TasksOf(p) < MaxTasks
  /\ console' = [console EXCEPT ![p] =
                  IF peerConnection[p] # 0 /\ ~ValidSdp(Head(net[p]))
                  THEN Append(@, "invalid") ELSE @]
  /\ net' = [net EXCEPT ![p] = Tail(@)]
  /\ LET data == Head(net[p]) IN
     IF peerConnection[p] = 0 \/ ~ValidSdp(data) \/ ignoreOffer[p]
     THEN UNCHANGED chain
     ELSE chain' = [chain EXCEPT ![p] =
                      Append(@, Task("handleAnswer", "setRemote", data.sdp))]
  /\ UNCHANGED <<rebuilt, session, facade, userId, peerConnection, sigState, sdp, makingOffer, ignoreOffer,
                 isPolite, localStream, gum, offerSeq, events, offerLog, iceLog>>

\* setRemoteDescription(answer) settled
HandleAnswerAfterSetRemote(p) ==
  /\ chain[p] # <<>>
  /\ LET t == Head(chain[p]) IN
     /\ t.kind = "handleAnswer" /\ t.op = "setRemote"
     /\ \E o \in Outcomes(p, t) :
          IF o = "ok"
          THEN /\ sdp' = [sdp EXCEPT ![p] = SdpAfterRemote(p, t.sdp)]
               /\ sigState' = [sigState EXCEPT ![p] = StateAfterRemote(t.sdp)]
               /\ chain' = [chain EXCEPT ![p] = Tail(@)]
               /\ UNCHANGED <<peerConnection, events, rebuilt, console>>
          ELSE CatchSdpError(p, o, Injected(p, t, o), Tail(chain[p]))
  /\ UNCHANGED <<session, facade, userId, makingOffer, ignoreOffer, isPolite, localStream, gum, net,
                 offerSeq, offerLog, iceLog>>

\* ------------------------------------------------------------- ICE candidates
\* onicecandidate with event.candidate set: emit an ice-candidate envelope
OnIceCandidate(p) ==
  /\ events > 0
  /\ peerConnection[p] # 0
  /\ sigState[p] # "closed"
  /\ LocalDescription(p) # None
  /\ events' = events - 1
  /\ net' = Emit(p, "ice-candidate", None)
  /\ UNCHANGED <<console, rebuilt, session, facade, userId, peerConnection, sigState, sdp, makingOffer, ignoreOffer,
                 isPolite, localStream, chain, gum, offerSeq, offerLog, iceLog>>

\* a handleIceCandidate that does not consult ignoreOffer
HandleIceCandidateNoIgnoreCheck(p) ==
  /\ net[p] # <<>>
  /\ Head(net[p]).type = "ice-candidate"
  /\ TasksOf(p) < MaxTasks
  /\ net' = [net EXCEPT ![p] = Tail(@)]
  /\ IF peerConnection[p] = 0
     THEN UNCHANGED chain
     ELSE chain' = [chain EXCEPT ![p] =
                      Append(@, Task("handleIceCandidate", "addIce", None))]
  /\ UNCHANGED <<console, rebuilt, session, facade, userId, peerConnection, sigState, sdp, makingOffer, ignoreOffer,
                 isPolite, localStream, gum, offerSeq, events, offerLog, iceLog>>

\* socket.on('ice-candidate'): the synchronous part of handleIceCandidate
HandleIceCandidate(p) ==
  /\ net[p] # <<>>
  /\ Head(net[p]).type = "ice-candidate"
  /\ TasksOf(p) < MaxTasks
  /\ net' = [net EXCEPT ![p] = Tail(@)]
  /\ IF peerConnection[p] = 0 \/ ignoreOffer[p]
     THEN UNCHANGED chain
     ELSE chain' = [chain EXCEPT ![p] =
                      Append(@, Task("handleIceCandidate", "addIce", None))]
  /\ UNCHANGED <<console, rebuilt, session, facade, userId, peerConnection, sigState, sdp, makingOffer, ignoreOffer,
                 isPolite, localStream, gum, offerSeq, events, offerLog, iceLog>>

\* an addIceCandidate failure handled the way a description failure is
HandleIceCandidateAfterAddRecovering(p) ==
  /\ chain[p] # <<>>
  /\ LET t == Head(chain[p]) IN
     /\ t.kind = "handleIceCandidate" /\ t.op = "addIce"
     /\ \E o \in Outcomes(p, t) :
          /\ iceLog' = [iceLog EXCEPT ![p] =
                          Append(@, IF o = "ok" THEN "ok" ELSE "fail")]
          /\ IF o = "ok"
             THEN /\ chain' = [chain EXCEPT ![p] = Tail(@)]
                  /\ UNCHANGED <<peerConnection, sigState, sdp, events, rebuilt, console>>
             ELSE CatchSdpError(p, o, Injected(p, t, o), Tail(chain[p]))
  /\ UNCHANGED <<session, facade, userId, makingOffer, ignoreOffer, isPolite, localStream, gum, net,
                 offerSeq, offerLog>>

\* a handleIceCandidate without its try/catch: the rejection of
\* addIceCandidate leaves the handler as an unhandled rejection
HandleIceCandidateAfterAddUncaught(p) ==
  /\ chain[p] # <<>>
  /\ LET t == Head(chain[p]) IN
     /\ t.kind = "handleIceCandidate" /\ t.op = "addIce"
     /\ \E o \in Outcomes(p, t) :
          /\ events' = events - Injected(p, t, o)
          /\ iceLog' = [iceLog EXCEPT ![p] =
                          Append(@, IF o = "ok" THEN "ok" ELSE "fail")]
          /\ unhandled' = [unhandled EXCEPT ![p] = IF o = "ok" THEN @ ELSE @ + 1]
  /\ chain' = [chain EXCEPT ![p] = Tail(@)]
  /\ UNCHANGED <<console, rebuilt, session, userId, peerConnection, sigState, sdp, makingOffer,
                 ignoreOffer, isPolite, localStream, gum, net, offerSeq, offerLog,
                 isInitialized, initPending, initResult, disconnectCalls, liveSockets, released,
                 callEvents, uiLocalStream, chatSent, roomEnvelope>>

\* addIceCandidate settled: a failure is logged and nothing else
HandleIceCandidateAfterAdd(p) ==
  /\ chain[p] # <<>>
  /\ LET t == Head(chain[p]) IN
     /\ t.kind = "handleIceCandidate" /\ t.op = "addIce"
     /\ \E o \in Outcomes(p, t) :
          /\ events' = events - Injected(p, t, o)
          /\ iceLog' = [iceLog EXCEPT ![p] =
                          Append(@, IF o = "ok" THEN "ok" ELSE "fail")]
  /\ chain' = [chain EXCEPT ![p] = Tail(@)]
  /\ UNCHANGED <<console, rebuilt, session, facade, userId, peerConnection, sigState, sdp, makingOffer, ignoreOffer,
                 isPolite, localStream, gum, net, offerSeq, offerLog>>

\* ------------------------------------------------------------- startLocalStream
\* a startLocalStream that never falls back to addTrack
AttachLocalTracksReplaceOnly(p) ==
  IF peerConnection[p] # 0 /\ audioTransceiver[p] # "absent"
  THEN /\ audioTransceiver' = [audioTransceiver EXCEPT ![p] = "replaceTrack"]
       /\ videoTransceiver' = [videoTransceiver EXCEPT ![p] = "replaceTrack"]
       /\ UNCHANGED extraSenders
  ELSE UNCHANGED <<audioTransceiver, videoTransceiver, extraSenders>>

\* the forEach over the captured tracks: replaceTrack on the transceiver of
\* the track's kind, addTrack when the field is undefined
AttachLocalTracks(p) ==
  IF peerConnection[p] = 0
  THEN UNCHANGED <<audioTransceiver, videoTransceiver, extraSenders>>
  ELSE IF audioTransceiver[p] # "absent"
  THEN /\ audioTransceiver' = [audioTransceiver EXCEPT ![p] = "replaceTrack"]
       /\ videoTransceiver' = [videoTransceiver EXCEPT ![p] = "replaceTrack"]
       /\ UNCHANGED extraSenders
  ELSE /\ extraSenders' = [extraSenders EXCEPT ![p] = @ + 2]
       /\ UNCHANGED <<audioTransceiver, videoTransceiver>>

\* getUserMedia settled for capture run c, started by the screen
\* ("startLocalStream") or inside handleOffer.  A first failure retries with
\* simple constraints; a second one is thrown to the caller.
StartLocalStreamAfterGetUserMedia(p) ==
  /\ \E c \in gum[p] :
       \E o \in {"ok"} \cup (IF events > 0 THEN {"conflict", "other"} ELSE {}) :
         IF o = "ok"
         THEN /\ localStream' = [localStream EXCEPT ![p] = TRUE]
              /\ uiLocalStream' = [uiLocalStream EXCEPT ![p] =
                                     IF callbacks[p] THEN TRUE ELSE @]
              /\ gum' = [gum EXCEPT ![p] = @ \ {c}]
              /\ AttachLocalTracks(p)
              /\ IF peerConnection[p] # 0
                 THEN /\ chain' = [chain EXCEPT ![p] =
                                     IF c.kind = "handleOffer"
                                     THEN Append(@, Task("handleOffer", "setRemote", c.sdp))
                                     ELSE IF c.kind = "createOffer"
                                     THEN Append(@, Task("createOffer", "createOffer", None))
                                     ELSE @]
                      /\ UNCHANGED <<console, unhandled>>
                 ELSE \* this.peerConnection is null by now: the caller's next
                      \* statement throws a TypeError into its catch block
                      /\ console' = [console EXCEPT ![p] =
                                       IF c.kind = "handleOffer" THEN Append(@, "other") ELSE @]
                      /\ unhandled' = [unhandled EXCEPT ![p] =
                                         IF c.kind = "createOffer" THEN @ + 1 ELSE @]
                      /\ UNCHANGED chain
              /\ UNCHANGED <<peerConnection, sigState, sdp, events, dataChannel, sent>>
         ELSE IF c.try = 1
         THEN /\ gum' = [gum EXCEPT ![p] = (@ \ {c}) \cup {Capture(c.kind, 2, c.sdp)}]
              /\ events' = events - 1
              /\ UNCHANGED <<uiLocalStream, unhandled>>
              /\ UNCHANGED <<localStream, chain, peerConnection, sigState, sdp, rebuilt,
                             console>>
         ELSE /\ gum' = [gum EXCEPT ![p] = @ \ {c}]
              /\ UNCHANGED <<localStream, uiLocalStream>>
              /\ unhandled' = [unhandled EXCEPT ![p] =
                                 IF c.kind = "createOffer" THEN @ + 1 ELSE @]
              /\ IF c.kind = "handleOffer"
                 THEN CatchSdpError(p, o, 1, chain[p])
                 ELSE /\ events' = events - 1
                      /\ UNCHANGED <<chain, peerConnection, sigState, sdp, rebuilt,
                                     console>>
  /\ UNCHANGED <<userId, makingOffer, ignoreOffer, isPolite, net, offerSeq, offerLog,
                 iceLog, session, isInitialized, initPending, initResult,
                 disconnectCalls, liveSockets, released, callEvents, chatSent, roomEnvelope>>

\* ------------------------------------------------------------- signaling server
\* the server relays the envelope at the head of p's queue twice
Duplicate(p) ==
  /\ events > 0
  /\ net[p] # <<>>
  /\ events' = events - 1
  /\ net' = [net EXCEPT ![p] = <<Head(@)>> \o @]
  /\ UNCHANGED <<console, rebuilt, session, facade, userId, peerConnection, sigState, sdp, makingOffer, ignoreOffer,
                 isPolite, localStream, chain, gum, offerSeq, offerLog, iceLog>>

\* the server delivers an offer or answer envelope that lacks sdp, sdp.type
\* or sdp.sdp
MalformedSdps == {None, [type |-> "", by |-> 1, n |-> 1], [type |-> "offer", by |-> 0, n |-> 0],
                  [type |-> "answer", by |-> 0, n |-> 0]}

Malformed(p) ==
  /\ events > 0
  /\ Len(net[p]) < MaxTasks
  /\ events' = events - 1
  /\ \E ty \in {"offer", "answer"} : \E bad \in MalformedSdps :
       net' = [net EXCEPT ![p] = Append(@, [type |-> ty, roomId |-> Room,
                                            sender |-> userId[Other(p)], sdp |-> bad])]
  /\ UNCHANGED <<console, rebuilt, session, facade, userId, peerConnection, sigState, sdp, makingOffer,
                 ignoreOffer, isPolite, localStream, chain, gum, offerSeq, offerLog,
                 iceLog>>

\* ------------------------------------------------------------- createOffer
\* the screen's call button (enabled once the roster shows a second member)
\* calls createOffer(): capture media if there is none, then await
\* peerConnection.createOffer
CreateOffer(p) ==
  /\ events > 0
  /\ Len(roster[p]) > 1
  /\ TasksOf(p) < MaxTasks
  /\ events' = events - 1
  /\ IF peerConnection[p] = 0
     THEN UNCHANGED <<gum, chain>>
     ELSE IF ~localStream[p]
     THEN /\ gum' = [gum EXCEPT ![p] = @ \cup {Capture("createOffer", 1, None)}]
          /\ UNCHANGED chain
     ELSE /\ chain' = [chain EXCEPT ![p] = Append(@, Task("createOffer", "createOffer", None))]
          /\ UNCHANGED gum
  /\ UNCHANGED <<console, rebuilt, session, facade, userId, peerConnection, sigState, sdp, makingOffer,
                 ignoreOffer, isPolite, localStream, net, offerSeq, offerLog, iceLog>>

\* createOffer's peerConnection.createOffer settled: on success await
\* setLocalDescription(offer); a failure is logged and rethrown to the screen
CreateOfferAfterCreateOffer(p) ==
  /\ chain[p] # <<>>
  /\ LET t == Head(chain[p]) IN
     /\ t.kind = "createOffer" /\ t.op = "createOffer"
     /\ \E o \in Outcomes(p, t) :
          /\ events' = events - Injected(p, t, o)
          /\ IF o = "ok"
             THEN /\ offerSeq' = [offerSeq EXCEPT ![p] = @ + 1]
                  /\ chain' = [chain EXCEPT ![p] = Append(Tail(@),
                        Task("createOffer", "setLocal",
                             [type |-> "offer", by |-> p, n |-> offerSeq[p] + 1]))]
             ELSE /\ chain' = [chain EXCEPT ![p] = Tail(@)]
                  /\ UNCHANGED offerSeq
          /\ unhandled' = [unhandled EXCEPT ![p] = IF o = "ok" THEN @ ELSE @ + 1]
  /\ UNCHANGED <<isInitialized, initPending, initResult, disconnectCalls, liveSockets, released,
                 callEvents, uiLocalStream, chatSent, roomEnvelope>>
  /\ UNCHANGED <<console, rebuilt, session, userId, peerConnection, sigState, sdp, makingOffer,
                 ignoreOffer, isPolite, localStream, gum, net, offerLog, iceLog>>

\* createOffer's setLocalDescription(offer) settled: on success emit the offer
CreateOfferAfterSetLocal(p) ==
  /\ chain[p] # <<>>
  /\ LET t == Head(chain[p]) IN
     /\ t.kind = "createOffer" /\ t.op = "setLocal"
     /\ \E o \in Outcomes(p, t) :
          /\ events' = events - Injected(p, t, o)
          /\ IF o = "ok"
             THEN /\ sdp' = [sdp EXCEPT ![p] = SdpAfterLocal(p, t.sdp)]
                  /\ sigState' = [sigState EXCEPT ![p] = StateAfterLocal(t.sdp)]
                  /\ net' = Emit(p, "offer", t.sdp)
                  /\ console' = [console EXCEPT ![p] = Append(@, "Offer sent successfully")]
             ELSE UNCHANGED <<console, sdp, sigState, net>>
          /\ unhandled' = [unhandled EXCEPT ![p] = IF o = "ok" THEN @ ELSE @ + 1]
  /\ chain' = [chain EXCEPT ![p] = Tail(@)]
  /\ UNCHANGED <<isInitialized, initPending, initResult, disconnectCalls, liveSockets, released,
                 callEvents, uiLocalStream, chatSent, roomEnvelope>>
  /\ UNCHANGED <<rebuilt, session, userId, peerConnection, makingOffer, ignoreOffer,
                 isPolite, localStream, gum, offerSeq, offerLog, iceLog>>

\* ------------------------------------------------------------- roster
\* client lists the server sends in room:update and joined
Rosters == {<<>>, <<1>>, <<1, 2>>}

\* the action field of room:update
RoomActions == {"user-joined", "user-left"}

\* the data of a room:update event, with or without a clients field
RoomUpdates ==
  {[type |-> "room:update", action |-> a, clients |-> c] :
     a \in RoomActions, c \in Rosters} \cup
  {[type |-> "room:update", action |-> a] : a \in RoomActions}

\* the data of a joined event, with or without a clients field
Joineds ==
  {[type |-> "joined", clients |-> c] : c \in Rosters} \cup {[type |-> "joined"]}

\* what the handlers read of the data: whether it has a clients field, and
\* the field
ClientsField(data) ==
  [handled |-> TRUE, hasClients |-> "clients" \in DOMAIN data,
   clients |-> IF "clients" \in DOMAIN data THEN data.clients ELSE <<>>]

\* data.clients || []
Clients(data) == IF "clients" \in DOMAIN data THEN data.clients ELSE <<>>

\* a room:update handler that starts a call when a user joined
HandleRoomUpdateAutoOffer(p) ==
  /\ events > 0
  /\ events' = events - 1
  /\ \E data \in RoomUpdates :
       /\ roomEnvelope' = [roomEnvelope EXCEPT ![p] = ClientsField(data)]
       /\ roster' = [roster EXCEPT ![p] = IF callbacks[p] THEN Clients(data) ELSE @]
       /\ chain' = [chain EXCEPT ![p] =
                      IF /\ data.action = "user-joined" /\ Len(Clients(data)) > 1
                         /\ peerConnection[p] # 0 /\ localStream[p]
                      THEN Append(@, Task("createOffer", "createOffer", None))
                      ELSE @]
  /\ UNCHANGED <<isInitialized, initPending, initResult, disconnectCalls, liveSockets, released,
                 callEvents, uiLocalStream, chatSent, unhandled>>
  /\ UNCHANGED <<console, rebuilt, dc, chatMessages, socket, roomId, callbacks, chatCalls,
                 userId, peerConnection, sigState, sdp, makingOffer, ignoreOffer, isPolite,
                 localStream, gum, net, offerSeq, offerLog, iceLog>>

\* socket.on('room:update'): callbacks.onRoomUpdate(data.clients || [])
HandleRoomUpdate(p) ==
  /\ events > 0
  /\ events' = events - 1
  /\ \E data \in RoomUpdates :
       /\ roomEnvelope' = [roomEnvelope EXCEPT ![p] = ClientsField(data)]
       /\ roster' = [roster EXCEPT ![p] = IF callbacks[p] THEN Clients(data) ELSE @]
  /\ UNCHANGED <<isInitialized, initPending, initResult, disconnectCalls, liveSockets, released,
                 callEvents, uiLocalStream, chatSent, unhandled>>
  /\ UNCHANGED <<console, rebuilt, dc, chatMessages, socket, roomId, callbacks, chatCalls, userId,
                 peerConnection, sigState, sdp, makingOffer, ignoreOffer, isPolite,
                 localStream, chain, gum, net, offerSeq, offerLog, iceLog>>

\* a joined handler that adds the clients to the roster it published before
HandleJoinedMerging(p) ==
  /\ events > 0
  /\ events' = events - 1
  /\ \E data \in Joineds :
       /\ roomEnvelope' = [roomEnvelope EXCEPT ![p] = ClientsField(data)]
       /\ roster' = [roster EXCEPT ![p] = IF callbacks[p] THEN @ \o Clients(data) ELSE @]
  /\ UNCHANGED <<isInitialized, initPending, initResult, disconnectCalls, liveSockets, released,
                 callEvents, uiLocalStream, chatSent, unhandled>>
  /\ UNCHANGED <<console, rebuilt, dc, chatMessages, socket, roomId, callbacks, chatCalls, userId,
                 peerConnection, sigState, sdp, makingOffer, ignoreOffer, isPolite,
                 localStream, chain, gum, net, offerSeq, offerLog, iceLog>>

\* socket.on('joined'): callbacks.onRoomUpdate(data.clients || [])
HandleJoined(p) ==
  /\ events > 0
  /\ events' = events - 1
  /\ \E data \in Joineds :
       /\ roomEnvelope' = [roomEnvelope EXCEPT ![p] = ClientsField(data)]
       /\ roster' = [roster EXCEPT ![p] = IF callbacks[p] THEN Clients(data) ELSE @]
  /\ UNCHANGED <<isInitialized, initPending, initResult, disconnectCalls, liveSockets, released,
                 callEvents, uiLocalStream, chatSent, unhandled>>
  /\ UNCHANGED <<console, rebuilt, dc, chatMessages, socket, roomId, callbacks, chatCalls, userId,
                 peerConnection, sigState, sdp, makingOffer, ignoreOffer, isPolite,
                 localStream, chain, gum, net, offerSeq, offerLog, iceLog>>

\* ------------------------------------------------------------- chat
\* the texts the screen sends
Texts == {"hi", "yo"}

\* Date.now(): the number of environment events so far
Now == MaxEvents - events

\* JSON.stringify of an object: its key / value pairs
Stringify(m) == {<<k, m[k]>> : k \in DOMAIN m}

\* JSON.parse of such a string
Parse(str) == [k \in {kv[1] : kv \in str} |-> (CHOOSE kv \in str : kv[1] = k)[2]]

\* the data channel of the connection opens once both sides have applied
\* each other's descriptions
DataChannelOnOpen(p) ==
  /\ dataChannel[p] = "connecting"
  /\ peerConnection[p] # 0
  /\ \A q \in Peers : sigState[q] = "stable" /\ sdp[q].cl # None /\ sdp[q].cr # None
  /\ dataChannel' = [dataChannel EXCEPT ![p] = "open"]
  /\ UNCHANGED <<console, audioTransceiver, videoTransceiver, extraSenders, sent, session, facade,
                 userId, peerConnection, sigState, sdp, makingOffer, ignoreOffer,
                 isPolite, localStream, chain, gum, net, offerSeq, events, offerLog,
                 iceLog>>

\* a sendChatMessage that also emits on the socket when the data channel is open
SendChatMessageBothPaths(p) ==
  /\ events > 0
  /\ Len(net[Other(p)]) < MaxTasks
  /\ Len(dc[Other(p)]) < MaxTasks
  /\ events' = events - 1
  /\ \E message \in Texts :
       /\ chatSent' = [chatSent EXCEPT ![p] = Append(@, message)]
       /\ net' = IF socket[p] # 0
                 THEN [net EXCEPT ![Other(p)] =
                         Append(@, [type |-> "chat-message", roomId |-> roomId[p],
                                    sender |-> userId[p], message |-> message])]
                 ELSE net
       /\ dc' = IF dataChannel[p] = "open"
                THEN [dc EXCEPT ![Other(p)] =
                        Append(@, Stringify([sender |-> userId[p], message |-> message,
                                             time |-> Now, senderId |-> userId[p]]))]
                ELSE dc
  /\ chatCalls' = [chatCalls EXCEPT ![p] = @ + 1]
  /\ UNCHANGED <<isInitialized, initPending, initResult, disconnectCalls, liveSockets, released,
                 callEvents, uiLocalStream, unhandled, roomEnvelope>>
  /\ UNCHANGED <<console, rebuilt, chatMessages, roster, socket, roomId, callbacks, userId,
                 peerConnection, sigState, sdp, makingOffer, ignoreOffer, isPolite,
                 localStream, chain, gum, offerSeq, offerLog, iceLog>>

\* sendChatMessage(message)
SendChatMessage(p) ==
  /\ events > 0
  /\ Len(net[Other(p)]) < MaxTasks
  /\ Len(dc[Other(p)]) < MaxTasks
  /\ events' = events - 1
  /\ \E message \in Texts :
       /\ chatSent' = [chatSent EXCEPT ![p] = Append(@, message)]
       /\ IF dataChannel[p] # "open"
          THEN /\ net' = IF socket[p] = 1 /\ socket[Other(p)] = 1
                        THEN [net EXCEPT ![Other(p)] =
                                Append(@, [type |-> "chat-message", roomId |-> roomId[p],
                                           sender |-> userId[p], message |-> message])]
                        ELSE net
               \* an emit on a socket that is not connected is queued in it
               /\ sent' = IF socket[p] \in {2, 3}
                         THEN [sent EXCEPT ![p] =
                                 Append(@, [type |-> "chat-message", roomId |-> roomId[p],
                                            sender |-> userId[p], message |-> message])]
                         ELSE sent
               /\ UNCHANGED dc
          ELSE /\ dc' = [dc EXCEPT ![Other(p)] =
                           Append(@, Stringify([sender |-> userId[p], message |-> message,
                                                time |-> Now, senderId |-> userId[p]]))]
               /\ UNCHANGED <<net, sent>>
  /\ chatCalls' = [chatCalls EXCEPT ![p] = @ + 1]
  /\ UNCHANGED <<isInitialized, initPending, initResult, disconnectCalls, liveSockets, released,
                 callEvents, uiLocalStream, unhandled, roomEnvelope>>
  /\ UNCHANGED <<console, audioTransceiver, videoTransceiver, extraSenders, dataChannel,
                 chatMessages, roster, socket, roomId, callbacks, userId,
                 peerConnection, sigState, sdp, makingOffer, ignoreOffer, isPolite,
                 localStream, chain, gum, offerSeq, offerLog, iceLog>>

\* socket.on('chat-message'): callbacks.onChatMessage(data), data being what
\* the sender emitted, relayed by the server as it is
HandleChatMessage(p) ==
  /\ net[p] # <<>>
  /\ Head(net[p]).type = "chat-message"
  /\ net' = [net EXCEPT ![p] = Tail(@)]
  /\ LET data == [k \in DOMAIN Head(net[p]) \ {"type"} |-> Head(net[p])[k]] IN
     chatMessages' = [chatMessages EXCEPT ![p] =
                        IF callbacks[p] THEN Append(@, data) ELSE @]
  /\ UNCHANGED <<console, rebuilt, dc, roster, socket, roomId, callbacks, chatCalls, facade, userId,
                 peerConnection, sigState, sdp, makingOffer, ignoreOffer, isPolite,
                 localStream, chain, gum, offerSeq, events, offerLog, iceLog>>

\* channel.onmessage of the channel announced by ondatachannel:
\* callbacks.onChatMessage(JSON.parse(ev.data))
DataChannelOnMessage(p) ==
  /\ dc[p] # <<>>
  /\ dc' = [dc EXCEPT ![p] = Tail(@)]
  /\ chatMessages' = [chatMessages EXCEPT ![p] =
                        IF callbacks[p] THEN Append(@, Parse(Head(dc[p]))) ELSE @]
  /\ UNCHANGED <<console, rebuilt, roster, socket, roomId, callbacks, chatCalls, facade, userId, peerConnection,
                 sigState, sdp, makingOffer, ignoreOffer, isPolite, localStream, chain,
                 gum, net, offerSeq, events, offerLog, iceLog>>

\* ------------------------------------------------------------- call commands
\* socket ids the screen passes as call targets
SocketIds == {"s1"}

\* an emit that sends the envelope twice
EmitToServerTwice(p, e) ==
  /\ sent' = [sent EXCEPT ![p] = IF socket[p] # 0 THEN Append(Append(@, e), e) ELSE @]
  /\ events > 0
  /\ events' = events - 1
  /\ UNCHANGED <<console, audioTransceiver, videoTransceiver, extraSenders, dataChannel,
                 session, facade, userId, peerConnection, sigState, sdp, makingOffer,
                 ignoreOffer, isPolite, localStream, chain, gum, net, offerSeq,
                 offerLog, iceLog>>

\* this.socket?.emit of an envelope the server consumes
EmitToServer(p, e) ==
  /\ sent' = [sent EXCEPT ![p] = IF socket[p] # 0 THEN Append(@, e) ELSE @]
  /\ events > 0
  /\ events' = events - 1
  /\ UNCHANGED <<console, audioTransceiver, videoTransceiver, extraSenders, dataChannel,
                 session, facade, userId, peerConnection, sigState, sdp, makingOffer,
                 ignoreOffer, isPolite, localStream, chain, gum, net, offerSeq,
                 offerLog, iceLog>>

MakeCall(p) ==
  \E targetSocketId \in SocketIds :
    EmitToServer(p, [type |-> "call-user", roomId |-> roomId[p],
                     targetSocketId |-> targetSocketId, sender |-> userId[p]])

AcceptCall(p) ==
  \E callerSocketId \in SocketIds :
    EmitToServer(p, [type |-> "call-accepted", roomId |-> roomId[p],
                     targetSocketId |-> callerSocketId, sender |-> userId[p]])

RejectCall(p) ==
  \E callerSocketId \in SocketIds :
    EmitToServer(p, [type |-> "call-rejected", roomId |-> roomId[p],
                     targetSocketId |-> callerSocketId, sender |-> userId[p]])

EndCall(p) ==
  EmitToServer(p, [type |-> "end-call", roomId |-> roomId[p], sender |-> userId[p]])

\* ------------------------------------------------------------- call events
\* the call-lifecycle envelopes the server sends to a member
CallEnvelopes(p) ==
  {[type |-> "incoming-call", caller |-> userId[Other(p)], callerSocketId |-> sid] :
     sid \in SocketIds} \cup
  {[type |-> "call-accepted", accepter |-> userId[Other(p)]],
   [type |-> "call-rejected", rejecter |-> userId[Other(p)]],
   [type |-> "call-ended", ender |-> userId[Other(p)]]} \cup
  {[type |-> "user-disconnected", disconnectedSocket |-> sid] : sid \in SocketIds}

\* the server sends p a call-lifecycle envelope
ServerCallEnvelope(p) ==
  /\ events > 0
  /\ Len(net[p]) < MaxTasks
  /\ events' = events - 1
  /\ \E e \in CallEnvelopes(p) : net' = [net EXCEPT ![p] = Append(@, e)]
  /\ UNCHANGED <<console, rebuilt, session, facade, userId, peerConnection, sigState, sdp,
                 makingOffer, ignoreOffer, isPolite, localStream, chain, gum, offerSeq,
                 offerLog, iceLog>>

\* socket.on('incoming-call'): onCallEvents('incoming-call', {caller, callerSocketId})
HandleIncomingCall(p) ==
  /\ net[p] # <<>>
  /\ Head(net[p]).type = "incoming-call"
  /\ net' = [net EXCEPT ![p] = Tail(@)]
  /\ callEvents' = [callEvents EXCEPT ![p] =
                      IF callbacks[p]
                      THEN Append(@, [event |-> "incoming-call", caller |-> Head(net[p]).caller, callerSocketId |-> Head(net[p]).callerSocketId])
                      ELSE @]
  /\ UNCHANGED <<isInitialized, initPending, initResult, disconnectCalls, liveSockets, released,
                 uiLocalStream, chatSent, unhandled, roomEnvelope>>
  /\ UNCHANGED <<console, rebuilt, session, userId, peerConnection, sigState, sdp, makingOffer,
                 ignoreOffer, isPolite, localStream, chain, gum, offerSeq, events, offerLog,
                 iceLog>>

\* socket.on('call-accepted'): onCallEvents('call-accepted', {accepter})
HandleCallAccepted(p) ==
  /\ net[p] # <<>>
  /\ Head(net[p]).type = "call-accepted"
  /\ net' = [net EXCEPT ![p] = Tail(@)]
  /\ callEvents' = [callEvents EXCEPT ![p] =
                      IF callbacks[p]
                      THEN Append(@, [event |-> "call-accepted", accepter |-> Head(net[p]).accepter])
                      ELSE @]
  /\ UNCHANGED <<isInitialized, initPending, initResult, disconnectCalls, liveSockets, released,
                 uiLocalStream, chatSent, unhandled, roomEnvelope>>
  /\ UNCHANGED <<console, rebuilt, session, userId, peerConnection, sigState, sdp, makingOffer,
                 ignoreOffer, isPolite, localStream, chain, gum, offerSeq, events, offerLog,
                 iceLog>>

\* socket.on('call-rejected'): onCallEvents('call-rejected', {rejecter})
HandleCallRejected(p) ==
  /\ net[p] # <<>>
  /\ Head(net[p]).type = "call-rejected"
  /\ net' = [net EXCEPT ![p] = Tail(@)]
  /\ callEvents' = [callEvents EXCEPT ![p] =
                      IF callbacks[p]
                      THEN Append(@, [event |-> "call-rejected", rejecter |-> Head(net[p]).rejecter])
                      ELSE @]
  /\ UNCHANGED <<isInitialized, initPending, initResult, disconnectCalls, liveSockets, released,
                 uiLocalStream, chatSent, unhandled, roomEnvelope>>
  /\ UNCHANGED <<console, rebuilt, session, userId, peerConnection, sigState, sdp, makingOffer,
                 ignoreOffer, isPolite, localStream, chain, gum, offerSeq, events, offerLog,
                 iceLog>>

\* socket.on('call-ended'): onCallEvents('call-ended', {ender})
HandleCallEnded(p) ==
  /\ net[p] # <<>>
  /\ Head(net[p]).type = "call-ended"
  /\ net' = [net EXCEPT ![p] = Tail(@)]
  /\ callEvents' = [callEvents EXCEPT ![p] =
                      IF callbacks[p]
                      THEN Append(@, [event |-> "call-ended", ender |-> Head(net[p]).ender])
                      ELSE @]
  /\ UNCHANGED <<isInitialized, initPending, initResult, disconnectCalls, liveSockets, released,
                 uiLocalStream, chatSent, unhandled, roomEnvelope>>
  /\ UNCHANGED <<console, rebuilt, session, userId, peerConnection, sigState, sdp, makingOffer,
                 ignoreOffer, isPolite, localStream, chain, gum, offerSeq, events, offerLog,
                 iceLog>>

\* a user-disconnected handler that passes the envelope's type on as the event
HandleUserDisconnectedUnmapped(p) ==
  /\ net[p] # <<>>
  /\ Head(net[p]).type = "user-disconnected"
  /\ net' = [net EXCEPT ![p] = Tail(@)]
  /\ callEvents' = [callEvents EXCEPT ![p] =
                      IF callbacks[p]
                      THEN Append(@, [event |-> "user-disconnected", userId |-> Head(net[p]).disconnectedSocket])
                      ELSE @]
  /\ UNCHANGED <<isInitialized, initPending, initResult, disconnectCalls, liveSockets, released,
                 uiLocalStream, chatSent, unhandled, roomEnvelope>>
  /\ UNCHANGED <<console, rebuilt, session, userId, peerConnection, sigState, sdp, makingOffer,
                 ignoreOffer, isPolite, localStream, chain, gum, offerSeq, events, offerLog,
                 iceLog>>

\* socket.on('user-disconnected'): onCallEvents('user-left', {userId: disconnectedSocket})
HandleUserDisconnected(p) ==
  /\ net[p] # <<>>
  /\ Head(net[p]).type = "user-disconnected"
  /\ net' = [net EXCEPT ![p] = Tail(@)]
  /\ callEvents' = [callEvents EXCEPT ![p] =
                      IF callbacks[p]
                      THEN Append(@, [event |-> "user-left", userId |-> Head(net[p]).disconnectedSocket])
                      ELSE @]
  /\ UNCHANGED <<isInitialized, initPending, initResult, disconnectCalls, liveSockets, released,
                 uiLocalStream, chatSent, unhandled, roomEnvelope>>
  /\ UNCHANGED <<console, rebuilt, session, userId, peerConnection, sigState, sdp, makingOffer,
                 ignoreOffer, isPolite, localStream, chain, gum, offerSeq, events, offerLog,
                 iceLog>>

\* ------------------------------------------------------------- lifecycle
\* the services constructed and not initialized
InitLifecycle ==
  /\ userId \in {f \in [Peers -> Ids] : f[1] # f[2]}
  /\ peerConnection = [p \in Peers |-> 0]
  /\ sigState = [p \in Peers |-> "closed"]
  /\ sdp = [p \in Peers |-> NoSdp]
  /\ makingOffer = [p \in Peers |-> FALSE]
  /\ ignoreOffer = [p \in Peers |-> FALSE]
  /\ isPolite = [p \in Peers |-> FALSE]
  /\ localStream = [p \in Peers |-> FALSE]
  /\ chain = [p \in Peers |-> <<>>]
  /\ gum = [p \in Peers |-> {}]
  /\ net = [p \in Peers |-> <<>>]
  /\ offerSeq = [p \in Peers |-> 0]
  /\ events = MaxEvents - 1
  /\ offerLog = [p \in Peers |-> <<>>]
  /\ iceLog = [p \in Peers |-> <<>>]
  /\ audioTransceiver = [p \in Peers |-> "none"]
  /\ videoTransceiver = [p \in Peers |-> "none"]
  /\ extraSenders = [p \in Peers |-> 0]
  /\ dataChannel = [p \in Peers |-> "null"]
  /\ sent = [p \in Peers |-> <<>>]
  /\ dc = [p \in Peers |-> <<>>]
  /\ chatMessages = [p \in Peers |-> <<>>]
  /\ roster = [p \in Peers |-> <<>>]
  /\ socket = [p \in Peers |-> 0]
  /\ roomId = [p \in Peers |-> ""]
  /\ callbacks = [p \in Peers |-> FALSE]
  /\ chatCalls = [p \in Peers |-> 0]
  /\ console = [p \in Peers |-> <<>>]
  /\ isInitialized = [p \in Peers |-> FALSE]
  /\ initPending = [p \in Peers |-> FALSE]
  /\ initResult = [p \in Peers |-> "none"]
  /\ disconnectCalls = [p \in Peers |-> 0]
  /\ liveSockets = [p \in Peers |-> 0]
  /\ released = [p \in Peers |-> <<>>]
  /\ callEvents = [p \in Peers |-> <<>>]
  /\ uiLocalStream = [p \in Peers |-> FALSE]
  /\ chatSent = [p \in Peers |-> <<>>]
  /\ unhandled = [p \in Peers |-> 0]
  /\ roomEnvelope = [p \in Peers |-> NoEnvelope]

\* initialize(signalingServer, roomId, userId, callbacks) up to its first
\* await, called when the last call ended as one of results ("none": never
\* called) and no call is in progress: past the isInitialized guard the
\* fields are assigned and this.socket = io(...) creates a socket
InitializeFrom(p, results) ==
  /\ ~isInitialized[p]
  /\ initResult[p] \in results
  /\ roomId' = [roomId EXCEPT ![p] = Room]
  /\ callbacks' = [callbacks EXCEPT ![p] = TRUE]
  /\ socket' = [socket EXCEPT ![p] = 2]
  /\ liveSockets' = [liveSockets EXCEPT ![p] = @ + 1]
  /\ initPending' = [initPending EXCEPT ![p] = TRUE]
  /\ initResult' = [initResult EXCEPT ![p] = "pending"]
  /\ UNCHANGED <<userId, peerConnection, sigState, sdp, makingOffer, ignoreOffer, isPolite,
                 localStream, chain, gum, net, offerSeq, events, offerLog, iceLog,
                 rebuilt, dc, chatMessages, roster, chatCalls, console, isInitialized,
                 disconnectCalls, released, callEvents, uiLocalStream, chatSent,
                 unhandled, roomEnvelope>>

\* the screen calls initialize once, on the service it has just constructed
Initialize(p) == InitializeFrom(p, {"none"})

\* a caller that also calls initialize again after a call that failed
InitializeAgain(p) == InitializeFrom(p, {"none", "ConnectError", "Error"})

\* how the promise of initializeSocket can settle: the socket connects, or
\* connect_error fires, or the timeout finds the socket not connected (the
\* only way left once disconnect has dropped the socket)
SocketOutcomes(p) ==
  IF socket[p] # 2 THEN {"timeout"}
  ELSE {"connect"} \cup (IF events > 0 THEN {"connect_error", "timeout"} ELSE {})

\* the rest of initialize after a connect failure: the error is logged and
\* rethrown to the caller
InitializeFails(p, used) ==
  /\ initResult' = [initResult EXCEPT ![p] = "ConnectError"]
  /\ socket' = [socket EXCEPT ![p] = IF @ = 2 THEN 3 ELSE @]
  /\ events' = events - used
  /\ UNCHANGED <<peerConnection, sigState, sdp, rebuilt, isInitialized, gum>>

\* the socket connects: it sends what was emitted on it while it was
\* connecting, and the 'connect' listener emits join; which comes first is up
\* to the socket.io client.  The server relays the chat envelopes.
OnConnect(p) ==
  /\ \E listenersFirst \in (IF sent[p] = <<>> THEN {TRUE} ELSE BOOLEAN) :
       sent' = [sent EXCEPT ![p] =
                  IF listenersFirst
                  THEN <<[type |-> "join", roomId |-> roomId[p]]>> \o @
                  ELSE Append(@, [type |-> "join", roomId |-> roomId[p]])]
  /\ net' = IF socket[Other(p)] = 1
            THEN [net EXCEPT ![Other(p)] = @ \o sent[p]]
            ELSE net

\* the rest of initialize after the socket connected: join is emitted,
\* initializePeerConnection runs, and the screen goes on to startLocalStream;
\* r = "fail" is the RTCPeerConnection constructor throwing
InitializeSucceeds(p, r) ==
  /\ socket' = [socket EXCEPT ![p] = 1]
  /\ OnConnect(p)
  /\ events' = events - (IF r = "fail" THEN 1 ELSE 0)
  /\ IF r = "ok"
     THEN /\ peerConnection' = [peerConnection EXCEPT ![p] = @ + 1]
          /\ sigState' = [sigState EXCEPT ![p] = "stable"]
          /\ sdp' = [sdp EXCEPT ![p] = NoSdp]
          /\ audioTransceiver' = [audioTransceiver EXCEPT ![p] = "none"]
          /\ videoTransceiver' = [videoTransceiver EXCEPT ![p] = "none"]
          /\ extraSenders' = [extraSenders EXCEPT ![p] = 0]
          /\ dataChannel' = [dataChannel EXCEPT ![p] = "connecting"]
          /\ isInitialized' = [isInitialized EXCEPT ![p] = TRUE]
          /\ initResult' = [initResult EXCEPT ![p] = "ok"]
          /\ gum' = [gum EXCEPT ![p] = @ \cup {Capture("startLocalStream", 1, None)}]
     ELSE /\ initResult' = [initResult EXCEPT ![p] = "Error"]
          /\ UNCHANGED <<peerConnection, sigState, sdp, audioTransceiver, videoTransceiver,
                         extraSenders, dataChannel, isInitialized, gum>>

\* an initialize that swallows the connect failure and goes on to
\* initializePeerConnection
InitializeSocketSettlesIgnoringError(p) ==
  /\ initPending[p]
  /\ initPending' = [initPending EXCEPT ![p] = FALSE]
  /\ \E o \in SocketOutcomes(p) :
       IF o = "connect"
       THEN \E r \in {"ok"} \cup (IF events > 0 THEN {"fail"} ELSE {}) :
              InitializeSucceeds(p, r)
       ELSE /\ socket' = [socket EXCEPT ![p] = IF @ = 2 THEN 3 ELSE @]
            /\ events' = events - (IF socket[p] = 2 THEN 1 ELSE 0)
            /\ peerConnection' = [peerConnection EXCEPT ![p] = @ + 1]
            /\ sigState' = [sigState EXCEPT ![p] = "stable"]
            /\ sdp' = [sdp EXCEPT ![p] = NoSdp]
            /\ audioTransceiver' = [audioTransceiver EXCEPT ![p] = "none"]
            /\ videoTransceiver' = [videoTransceiver EXCEPT ![p] = "none"]
            /\ extraSenders' = [extraSenders EXCEPT ![p] = 0]
            /\ dataChannel' = [dataChannel EXCEPT ![p] = "connecting"]
            /\ isInitialized' = [isInitialized EXCEPT ![p] = TRUE]
            /\ initResult' = [initResult EXCEPT ![p] = "ok"]
            /\ UNCHANGED <<sent, gum, net>>
  /\ UNCHANGED <<userId, makingOffer, ignoreOffer, isPolite, localStream, chain,
                 offerSeq, offerLog, iceLog, dc, chatMessages, roster, roomId, callbacks,
                 chatCalls, console, disconnectCalls, liveSockets, released, callEvents,
                 uiLocalStream, chatSent, unhandled, roomEnvelope>>

\* the promise of initializeSocket settles and initialize runs to its end
InitializeSocketSettles(p) ==
  /\ initPending[p]
  /\ initPending' = [initPending EXCEPT ![p] = FALSE]
  /\ \E o \in SocketOutcomes(p) :
       IF o = "connect"
       THEN \E r \in {"ok"} \cup (IF events > 0 THEN {"fail"} ELSE {}) :
              InitializeSucceeds(p, r)
       ELSE /\ InitializeFails(p, IF socket[p] = 2 THEN 1 ELSE 0)
            /\ UNCHANGED net
  /\ UNCHANGED <<userId, makingOffer, ignoreOffer, isPolite, localStream, chain,
                 offerSeq, offerLog, iceLog, dc, chatMessages, roster, roomId, callbacks,
                 chatCalls, console, disconnectCalls, liveSockets, released, callEvents,
                 uiLocalStream, chatSent, unhandled, roomEnvelope>>

\* a disconnect that drops the socket before the connection and the capture
ReleasesSocketFirst(p) ==
  (IF socket[p] # 0 THEN <<"socket">> ELSE <<>>) \o
  (IF dataChannel[p] # "null" THEN <<"dataChannel">> ELSE <<>>) \o
  (IF peerConnection[p] # 0 THEN <<"peerConnection">> ELSE <<>>) \o
  (IF localStream[p] THEN <<"localStream">> ELSE <<>>)

\* what disconnect closes or stops, in the order of its statements
Releases(p) ==
  (IF dataChannel[p] # "null" THEN <<"dataChannel">> ELSE <<>>) \o
  (IF peerConnection[p] # 0 THEN <<"peerConnection">> ELSE <<>>) \o
  (IF localStream[p] THEN <<"localStream">> ELSE <<>>) \o
  (IF socket[p] # 0 THEN <<"socket">> ELSE <<>>)

\* the screen's cleanup: disconnect(), then its stream states are cleared.
\* Operations still pending on the closed connection never settle; envelopes
\* on their way to the closed socket are lost.
Disconnect(p) ==
  /\ disconnectCalls[p] < MaxDisconnects
  /\ disconnectCalls' = [disconnectCalls EXCEPT ![p] = @ + 1]
  /\ liveSockets' = [liveSockets EXCEPT ![p] = IF socket[p] # 0 THEN @ - 1 ELSE @]
  /\ released' = [released EXCEPT ![p] = @ \o Releases(p)]
  /\ dataChannel' = [dataChannel EXCEPT ![p] = "null"]
  /\ peerConnection' = [peerConnection EXCEPT ![p] = 0]
  /\ sigState' = [sigState EXCEPT ![p] = "closed"]
  /\ sdp' = [sdp EXCEPT ![p] = NoSdp]
  /\ localStream' = [localStream EXCEPT ![p] = FALSE]
  /\ socket' = [socket EXCEPT ![p] = 0]
  /\ isInitialized' = [isInitialized EXCEPT ![p] = FALSE]
  /\ uiLocalStream' = [uiLocalStream EXCEPT ![p] = FALSE]
  /\ net' = [net EXCEPT ![p] = <<>>]
  /\ chain' = [chain EXCEPT ![p] = <<>>]
  \* what the socket queued while it was not connected goes with it
  /\ sent' = [sent EXCEPT ![p] = IF socket[p] \in {2, 3} THEN <<>> ELSE @]
  /\ UNCHANGED <<userId, makingOffer, ignoreOffer, isPolite, gum, offerSeq, events,
                 offerLog, iceLog, audioTransceiver, videoTransceiver, extraSenders,
                 dc, chatMessages, roster, roomId, callbacks, chatCalls, console,
                 initPending, initResult, callEvents, chatSent, unhandled, roomEnvelope>>

\* ------------------------------------------------------------- specification
Next ==
  \E p \in Peers :
    \/ OnNegotiationNeeded(p)
    \/ OnNegotiationNeededAfterCreateOffer(p)
    \/ OnNegotiationNeededAfterSetLocal(p)
    \/ HandleOffer(p)
    \/ HandleOfferAfterSetRemote(p)
    \/ HandleOfferAfterCreateAnswer(p)
    \/ HandleOfferAfterSetLocal(p)
    \/ HandleAnswer(p)
    \/ HandleAnswerAfterSetRemote(p)
    \/ OnIceCandidate(p)
    \/ HandleIceCandidate(p)
    \/ HandleIceCandidateAfterAdd(p)
    \/ StartLocalStreamAfterGetUserMedia(p)
    \/ Duplicate(p)

Spec == Init /\ [][Next]_vars

\* the same services over the wider choice of identifiers
SpecRole == InitRole /\ [][Next]_vars
SpecSlots == InitSlots /\ [][Next]_vars

\* what the event loop and the engine are bound to do: an envelope on the
\* socket is dispatched to its handler, an awaited operation settles, a
\* capture ends, and an engine with a local description gathers candidates
\* while the environment lets it
Scheduling ==
  \A p \in Peers :
    /\ WF_vars(HandleOffer(p))
    /\ WF_vars(HandleOfferAfterSetRemote(p))
    /\ WF_vars(HandleOfferAfterCreateAnswer(p))
    /\ WF_vars(HandleOfferAfterSetLocal(p))
    /\ WF_vars(HandleAnswer(p))
    /\ WF_vars(HandleAnswerAfterSetRemote(p))
    /\ WF_vars(HandleIceCandidate(p))
    /\ WF_vars(HandleIceCandidateAfterAdd(p))
    /\ WF_vars(OnNegotiationNeededAfterCreateOffer(p))
    /\ WF_vars(OnNegotiationNeededAfterSetLocal(p))
    /\ WF_vars(CreateOfferAfterCreateOffer(p))
    /\ WF_vars(CreateOfferAfterSetLocal(p))
    /\ WF_vars(StartLocalStreamAfterGetUserMedia(p))
    /\ WF_vars(OnIceCandidate(p))

SpecLive == Init /\ [][Next]_vars /\ Scheduling

\* the whole session: negotiation, the screen's commands, roster and chat
\* traffic, malformed envelopes
NextSession ==
  \E p \in Peers :
    \/ OnNegotiationNeeded(p)
    \/ OnNegotiationNeededAfterCreateOffer(p)
    \/ OnNegotiationNeededAfterSetLocal(p)
    \/ HandleOffer(p)
    \/ HandleOfferAfterSetRemote(p)
    \/ HandleOfferAfterCreateAnswer(p)
    \/ HandleOfferAfterSetLocal(p)
    \/ HandleAnswer(p)
    \/ HandleAnswerAfterSetRemote(p)
    \/ OnIceCandidate(p)
    \/ HandleIceCandidate(p)
    \/ HandleIceCandidateAfterAdd(p)
    \/ StartLocalStreamAfterGetUserMedia(p)
    \/ Duplicate(p)
    \/ Malformed(p)
    \/ CreateOffer(p)
    \/ CreateOfferAfterCreateOffer(p)
    \/ CreateOfferAfterSetLocal(p)
    \/ HandleRoomUpdate(p)
    \/ HandleJoined(p)
    \/ DataChannelOnOpen(p)
    \/ SendChatMessage(p)
    \/ HandleChatMessage(p)
    \/ DataChannelOnMessage(p)
    \/ MakeCall(p)
    \/ AcceptCall(p)
    \/ RejectCall(p)
    \/ EndCall(p)

SpecSession == InitSession /\ [][NextSession]_vars

\* the negotiation together with the call-lifecycle envelopes and commands
NextCalls ==
  \E p \in Peers :
    \/ OnNegotiationNeeded(p)
    \/ OnNegotiationNeededAfterCreateOffer(p)
    \/ OnNegotiationNeededAfterSetLocal(p)
    \/ HandleOffer(p)
    \/ HandleOfferAfterSetRemote(p)
    \/ HandleOfferAfterCreateAnswer(p)
    \/ HandleOfferAfterSetLocal(p)
    \/ HandleAnswer(p)
    \/ HandleAnswerAfterSetRemote(p)
    \/ OnIceCandidate(p)
    \/ HandleIceCandidate(p)
    \/ HandleIceCandidateAfterAdd(p)
    \/ StartLocalStreamAfterGetUserMedia(p)
    \/ ServerCallEnvelope(p)
    \/ HandleIncomingCall(p)
    \/ HandleCallAccepted(p)
    \/ HandleCallRejected(p)
    \/ HandleCallEnded(p)
    \/ HandleUserDisconnected(p)
    \/ MakeCall(p)
    \/ AcceptCall(p)
    \/ RejectCall(p)
    \/ EndCall(p)

SpecCalls == Init /\ [][NextCalls]_vars

\* the services from construction on: initialize, the negotiation, disconnect
NextLifecycle ==
  \E p \in Peers :
    \/ Initialize(p)
    \/ InitializeSocketSettles(p)
    \/ Disconnect(p)
    \/ SendChatMessage(p)
    \/ HandleChatMessage(p)
    \/ OnNegotiationNeeded(p)
    \/ OnNegotiationNeededAfterCreateOffer(p)
    \/ OnNegotiationNeededAfterSetLocal(p)
    \/ HandleOffer(p)
    \/ HandleOfferAfterSetRemote(p)
    \/ HandleOfferAfterCreateAnswer(p)
    \/ HandleOfferAfterSetLocal(p)
    \/ HandleAnswer(p)
    \/ HandleAnswerAfterSetRemote(p)
    \/ OnIceCandidate(p)
    \/ HandleIceCandidate(p)
    \/ HandleIceCandidateAfterAdd(p)
    \/ StartLocalStreamAfterGetUserMedia(p)

SpecLifecycle == InitLifecycle /\ [][NextLifecycle]_vars

\* the same for a caller that may call initialize again
NextApi ==
  \E p \in Peers :
    \/ InitializeAgain(p)
    \/ InitializeSocketSettles(p)
    \/ Disconnect(p)
    \/ OnNegotiationNeeded(p)
    \/ OnNegotiationNeededAfterCreateOffer(p)
    \/ OnNegotiationNeededAfterSetLocal(p)
    \/ HandleOffer(p)
    \/ HandleOfferAfterSetRemote(p)
    \/ HandleOfferAfterCreateAnswer(p)
    \/ HandleOfferAfterSetLocal(p)
    \/ HandleAnswer(p)
    \/ HandleAnswerAfterSetRemote(p)
    \/ OnIceCandidate(p)
    \/ HandleIceCandidate(p)
    \/ HandleIceCandidateAfterAdd(p)
    \/ StartLocalStreamAfterGetUserMedia(p)

SpecApi == InitLifecycle /\ [][NextApi]_vars

\* ------------------------------------------------------------- properties
\* a > b in lexicographic order, stated through the first position where the
\* two strings differ
LexGreater(a, b) ==
  \E i \in 1..Len(a) :
    /\ \A j \in 1..(i - 1) : j <= Len(b) /\ a[j] = b[j]
    /\ i > Len(b) \/ a[i] > b[i]

\* the step hands the envelope at the head of p's queue, of type ty, to its handler
Arrives(p, ty) ==
  /\ net[p] # <<>>
  /\ Head(net[p]).type = ty
  /\ net'[p] = Tail(net[p])

\* no handler run is suspended and no envelope is in flight
Quiescent == \A p \in Peers : chain[p] = <<>> /\ gum[p] = {} /\ net[p] = <<>>

OfferOf(p) == [type |-> "offer", by |-> p, n |-> 1]
AnswerTo(p) == [type |-> "answer", by |-> Other(p), n |-> 1]

\* C1: glare convergence.  When both peers raised negotiation once, each
\* received the other's offer under a collision, the impolite side dropped it
\* and the polite side applied the impolite side's offer and answered it, and
\* nothing else disturbed the run, then once everything in flight has been
\* handled both sides are in the stable state and the impolite side has
\* applied the answer to its own offer.
C1_GlareConverges ==
  \A imp \in Peers :
    ( /\ ~LexGreater(userId[imp], userId[Other(imp)])
      /\ offerSeq = [p \in Peers |-> 1]
      /\ events = MaxEvents - 2
      /\ offerLog[imp] = <<"dropped">>
      /\ offerLog[Other(imp)] = <<"acceptedCollision">>
      /\ sdp[Other(imp)].cr = OfferOf(imp)
      /\ sdp[Other(imp)].cl = AnswerTo(imp)
      /\ Quiescent )
    => /\ sigState[imp] = "stable"
       /\ sigState[Other(imp)] = "stable"
       /\ sdp[imp].cl = OfferOf(imp)
       /\ sdp[imp].cr = AnswerTo(imp)

\* C2: role assignment.  Once a side has processed a valid offer, its isPolite
\* is true exactly if its own identifier is lexicographically greater than the
\* sender's, however many offers it has processed before; so once both sides
\* have processed an offer from each other, exactly one of them is polite.
C2_RoleAssignment ==
  /\ \A p \in Peers :
       offerLog[p] # <<>> => (isPolite[p] <=> LexGreater(userId[p], userId[Other(p)]))
  /\ (\A p \in Peers : offerLog[p] # <<>>) => isPolite[1] # isPolite[2]

\* both sides have processed an offer from the other, one identifier being a
\* proper prefix of the other
C2_Witness ==
  /\ userId[1] = <<1>> /\ userId[2] = <<1, 1>>
  /\ offerLog[1] # <<>> /\ offerLog[2] # <<>>
  /\ isPolite[2] /\ ~isPolite[1]

\* C3: impolite + collision.  Whenever a valid offer is handed to handleOffer
\* at the side whose identifier is not the greater one while makingOffer is
\* true or the signaling state is not stable, the step sets ignoreOffer and
\* changes nothing else: no description, no signaling state, no operation
\* started, no capture started, no envelope emitted.
C3_ImpoliteCollisionDrops ==
  [][\A p \in Peers :
       ( /\ Arrives(p, "offer")
         /\ ValidSdp(Head(net[p]))
         /\ peerConnection[p] # 0
         /\ ~LexGreater(userId[p], Head(net[p]).sender)
         /\ makingOffer[p] \/ sigState[p] # "stable" )
       => /\ ignoreOffer'[p]
          /\ sdp'[p] = sdp[p]
          /\ sigState'[p] = sigState[p]
          /\ peerConnection'[p] = peerConnection[p]
          /\ chain'[p] = chain[p]
          /\ gum'[p] = gum[p]
          /\ localStream'[p] = localStream[p]
          /\ net'[Other(p)] = net[Other(p)]]_vars

\* an impolite side has dropped a colliding offer while its own offer was
\* outstanding
C3_Witness ==
  \E p \in Peers :
    /\ offerLog[p] = <<"dropped">>
    /\ ignoreOffer[p]
    /\ sigState[p] = "have-local-offer"
    /\ ~makingOffer[p]

\* everything the service at p holds is left as it was
PeerUnchanged(p) ==
  /\ peerConnection'[p] = peerConnection[p]
  /\ sigState'[p] = sigState[p]
  /\ sdp'[p] = sdp[p]
  /\ makingOffer'[p] = makingOffer[p]
  /\ ignoreOffer'[p] = ignoreOffer[p]
  /\ isPolite'[p] = isPolite[p]
  /\ localStream'[p] = localStream[p]
  /\ chain'[p] = chain[p]
  /\ gum'[p] = gum[p]

\* the step settles, successfully, the operation op of the handler run of
\* kind k at the head of p's chain, on the connection it was issued on
Succeeds(p, k, op, from, to) ==
  /\ chain[p] # <<>>
  /\ Head(chain[p]).kind = k
  /\ Head(chain[p]).op = op
  /\ Len(chain'[p]) <= Len(chain[p])
  /\ peerConnection'[p] = peerConnection[p]
  /\ sigState[p] \in from
  /\ sigState'[p] = to
  /\ sdp'[p] # sdp[p]

\* C4: polite + collision.  At the side with the greater identifier, a valid
\* offer that arrives while makingOffer is true or the state is not stable is
\* not dropped: ignoreOffer is false after the step and the handler goes on to
\* apply it (after capturing media if there is no local stream).  When its
\* setRemoteDescription succeeds the offer is the remote description and the
\* outstanding local offer is gone; when its setLocalDescription(answer)
\* succeeds the state is stable, the local description is the answer, exactly
\* one answer envelope is appended to the peer's queue, and ignoreOffer is false.
C4_PoliteCollisionAccepts ==
  [][\A p \in Peers :
       LexGreater(userId[p], userId[Other(p)]) =>
         /\ ( /\ Arrives(p, "offer")
              /\ ValidSdp(Head(net[p]))
              /\ Head(net[p]).sender = userId[Other(p)]
              /\ peerConnection[p] # 0
              /\ makingOffer[p] \/ sigState[p] # "stable" )
            => /\ ~ignoreOffer'[p]
               /\ IF localStream[p]
                  THEN chain'[p] = Append(chain[p],
                                     Task("handleOffer", "setRemote", Head(net[p]).sdp))
                  ELSE gum'[p] = gum[p] \cup {Capture("handleOffer", 1, Head(net[p]).sdp)}
         /\ Succeeds(p, "handleOffer", "setRemote",
                     {"stable", "have-local-offer", "have-remote-offer"},
                     "have-remote-offer")
            => /\ sdp'[p].pr = Head(chain[p]).sdp
               /\ sdp'[p].pl = None
               /\ net' = net
         /\ Succeeds(p, "handleOffer", "setLocal", {"have-remote-offer"}, "stable")
            => /\ sdp'[p].cl = Head(chain[p]).sdp
               /\ sdp'[p].cr = sdp[p].pr
               /\ sdp'[p].pl = None
               /\ net'[Other(p)] = Append(net[Other(p)],
                     [type |-> "answer", roomId |-> Room, sender |-> userId[p],
                      sdp |-> Head(chain[p]).sdp])
               /\ net'[p] = net[p]
               /\ ~ignoreOffer'[p]]_vars

\* the polite side accepted a colliding offer, its own offer is superseded,
\* and its answer is on the way to the peer
C4_Witness ==
  \E p \in Peers :
    /\ LexGreater(userId[p], userId[Other(p)])
    /\ offerLog[p] = <<"acceptedCollision">>
    /\ offerSeq[p] = 1
    /\ sigState[p] = "stable"
    /\ sdp[p].cr = OfferOf(Other(p))
    /\ sdp[p].cl = AnswerTo(Other(p))
    /\ ~ignoreOffer[p]
    /\ net[Other(p)] = <<[type |-> "answer", roomId |-> Room, sender |-> userId[p],
                          sdp |-> AnswerTo(Other(p))]>>

\* the step settles, successfully, the setRemoteDescription at the head of
\* p's chain
RemoteApplied(p) ==
  /\ chain[p] # <<>>
  /\ Head(chain[p]).op = "setRemote"
  /\ peerConnection'[p] = peerConnection[p]
  /\ IF Head(chain[p]).kind = "handleOffer"
     THEN /\ chain'[p] = Append(Tail(chain[p]),
                                Task("handleOffer", "createAnswer", Head(chain[p]).sdp))
          /\ sdp'[p].pr = Head(chain[p]).sdp
     ELSE /\ sigState[p] = "have-local-offer"
          /\ sigState'[p] = "stable"
          /\ sdp'[p].cr = Head(chain[p]).sdp

\* the last entry of a non-empty log
Last(log) == log[Len(log)]

\* C5: answer handling.  A valid answer handed to handleAnswer while
\* ignoreOffer is true changes nothing at the receiver (no operation is
\* started, no description or state changes) and emits nothing; one handed to
\* it while ignoreOffer is false starts setRemoteDescription with that answer
\* and nothing else, and when that operation succeeds the answer is the remote
\* description, the outstanding local offer is the local description and the
\* state is stable.
C5_AnswerHandling ==
  [][\A p \in Peers :
       /\ ( /\ Arrives(p, "answer")
            /\ ValidSdp(Head(net[p]))
            /\ peerConnection[p] # 0 )
          => /\ net'[Other(p)] = net[Other(p)]
             /\ IF ignoreOffer[p]
                THEN PeerUnchanged(p)
                ELSE /\ chain'[p] = Append(chain[p],
                                      Task("handleAnswer", "setRemote", Head(net[p]).sdp))
                     /\ sdp'[p] = sdp[p]
                     /\ sigState'[p] = sigState[p]
                     /\ peerConnection'[p] = peerConnection[p]
       /\ Succeeds(p, "handleAnswer", "setRemote", {"have-local-offer"}, "stable")
          => /\ sdp'[p].cr = Head(chain[p]).sdp
             /\ sdp'[p].cl = sdp[p].pl
             /\ sdp'[p].pl = None /\ sdp'[p].pr = None
             /\ chain'[p] = Tail(chain[p])]_vars

\* an answer to the side's own offer has been applied as its remote description
C5_Witness ==
  \E p \in Peers :
    /\ ~ignoreOffer[p]
    /\ offerLog[p] = <<>>
    /\ sigState[p] = "stable"
    /\ sdp[p].cl = OfferOf(p)
    /\ sdp[p].cr = AnswerTo(p)

\* C6: candidate handling.  An ice-candidate envelope handed to
\* handleIceCandidate while ignoreOffer is true starts no addIceCandidate;
\* otherwise it starts exactly one.  When an addIceCandidate settles, with
\* success or with a failure, the peer connection object, its signaling state
\* and descriptions, makingOffer and ignoreOffer are what they were, and the
\* operations queued behind it (later candidates among them) stay queued.
C6_CandidateHandling ==
  [][\A p \in Peers :
       /\ ( Arrives(p, "ice-candidate") /\ peerConnection[p] # 0 )
          => /\ IF ignoreOffer[p]
                THEN chain'[p] = chain[p]
                ELSE chain'[p] = Append(chain[p],
                                   Task("handleIceCandidate", "addIce", None))
             /\ iceLog'[p] = iceLog[p]
             /\ peerConnection'[p] = peerConnection[p]
             /\ makingOffer'[p] = makingOffer[p]
             /\ ignoreOffer'[p] = ignoreOffer[p]
       /\ iceLog'[p] # iceLog[p]
          => /\ chain[p] # <<>>
             /\ Head(chain[p]).kind = "handleIceCandidate"
             /\ chain'[p] = Tail(chain[p])
             /\ peerConnection'[p] = peerConnection[p]
             /\ sigState'[p] = sigState[p]
             /\ sdp'[p] = sdp[p]
             /\ makingOffer'[p] = makingOffer[p]
             /\ ignoreOffer'[p] = ignoreOffer[p]]_vars

\* a candidate failed to apply and a later one was applied on the same
\* connection
C6_Witness ==
  \E p \in Peers :
    /\ iceLog[p] = <<"fail", "ok">>
    /\ peerConnection[p] = 1
    /\ sigState[p] # "closed"

\* C7 as stated: ignoreOffer goes from true to false only in a step in which
\* a setRemoteDescription succeeds.
C7_ClearedOnlyByRemoteApply ==
  [][\A p \in Peers :
       (ignoreOffer[p] /\ ~ignoreOffer'[p]) => RemoteApplied(p)]_vars

\* C7: while ignoreOffer is true every answer and every candidate handed to
\* its handler is dropped, and ignoreOffer goes from true to false only in the
\* step in which handleOffer takes up the next valid offer that it does not
\* drop (this side is polite for it, or there is no collision) -- at that
\* moment, before setRemoteDescription is called for it and whatever that call
\* will return.
C7_StaysUntilNextAcceptedOffer ==
  [][\A p \in Peers :
       ignoreOffer[p] =>
         /\ ~ignoreOffer'[p]
            => /\ Arrives(p, "offer")
               /\ ValidSdp(Head(net[p]))
               /\ peerConnection[p] # 0
               /\ \/ LexGreater(userId[p], Head(net[p]).sender)
                  \/ ~makingOffer[p] /\ sigState[p] = "stable"
               /\ sdp'[p] = sdp[p]
               /\ sigState'[p] = sigState[p]
               /\ \/ chain'[p] = Append(chain[p],
                                   Task("handleOffer", "setRemote", Head(net[p]).sdp))
                  \/ gum'[p] = gum[p] \cup {Capture("handleOffer", 1, Head(net[p]).sdp)}
         /\ (Arrives(p, "answer") \/ Arrives(p, "ice-candidate"))
            => PeerUnchanged(p)]_vars

\* ignoreOffer was set by a dropped offer and has been cleared by the next
\* offer, whose setRemoteDescription has not settled yet
C7_Witness ==
  \E p \in Peers :
    /\ Len(offerLog[p]) >= 2
    /\ offerLog[p][Len(offerLog[p]) - 1] = "dropped"
    /\ Last(offerLog[p]) = "accepted"
    /\ ~ignoreOffer[p]
    /\ chain[p] # <<>>
    /\ Head(chain[p]).kind = "handleOffer"
    /\ Head(chain[p]).op = "setRemote"

C9_DuplicateAnswerNoOp ==
  [][\A p \in Peers :
       ( /\ Arrives(p, "answer")
         /\ ValidSdp(Head(net[p]))
         /\ peerConnection[p] # 0
         /\ sigState[p] = "stable"
         /\ sdp[p].cr = Head(net[p]).sdp )
       => /\ PeerUnchanged(p)
          /\ net'[Other(p)] = net[Other(p)]]_vars

\* C10 as stated: a valid offer handed to handleOffer while that very offer
\* is already the remote description starts no operation and no capture and
\* emits nothing.
C10_DuplicateOfferDropped ==
  [][\A p \in Peers :
       ( /\ Arrives(p, "offer")
         /\ ValidSdp(Head(net[p]))
         /\ peerConnection[p] # 0
         /\ RemoteDescription(p) = Head(net[p]).sdp )
       => /\ chain'[p] = chain[p]
          /\ gum'[p] = gum[p]
          /\ sdp'[p] = sdp[p]
          /\ sigState'[p] = sigState[p]
          /\ net'[Other(p)] = net[Other(p)]]_vars

\* C11 as stated: whenever a run that constructs an outbound offer is
\* suspended at createOffer or setLocalDescription(offer), started by
\* negotiationneeded or by the createOffer command, makingOffer is true.
C11_MakingOfferHeldWhileConstructing ==
  \A p \in Peers :
    (\E i \in 1..Len(chain[p]) :
        chain[p][i].kind \in {"onnegotiationneeded", "createOffer"})
    => makingOffer[p]

\* the step ends the negotiationneeded run at the head of p's chain, on the
\* connection it was started on
NegotiationRunEnds(p) ==
  /\ chain[p] # <<>>
  /\ Head(chain[p]).kind = "onnegotiationneeded"
  /\ chain'[p] = Tail(chain[p])
  /\ peerConnection'[p] = peerConnection[p]
  /\ sigState'[p] # "closed"

\* C12: when a negotiationneeded run ends -- createOffer rejected,
\* setLocalDescription rejected, or the offer sent -- makingOffer is false
\* after the step.
C12_MakingOfferClearedAfterRun ==
  [][\A p \in Peers : NegotiationRunEnds(p) => ~makingOffer'[p]]_vars

\* a negotiationneeded run created its offer, failed to apply it, and left
\* makingOffer false and the connection stable
C12_Witness ==
  \E p \in Peers :
    /\ offerSeq[p] = 1
    /\ sdp[p] = NoSdp
    /\ peerConnection[p] = 1
    /\ sigState[p] = "stable"
    /\ chain[p] = <<>>
    /\ offerLog[p] = <<>>
    /\ net[Other(p)] = <<>>
    /\ ~makingOffer[p]

\* the step appends an offer envelope emitted by p to the other member's queue
EmitsOffer(p) ==
  LET q == Other(p) IN
  /\ Len(net'[q]) = Len(net[q]) + 1
  /\ SubSeq(net'[q], 1, Len(net[q])) = net[q]
  /\ net'[q][Len(net'[q])].type = "offer"
  /\ events' = events

\* a step that hands a roster to the screen starts no offer
RosterStepStartsNothing(p) ==
  roster'[p] # roster[p]
  => /\ chain' = chain
     /\ gum' = gum
     /\ net' = net
     /\ offerSeq' = offerSeq
     /\ makingOffer' = makingOffer

Logged(p, c) == console'[p] = Append(console[p], c)

\* the step replaces p's connection by a newly initialized one
Recreated(p) ==
  /\ peerConnection'[p] = peerConnection[p] + 1
  /\ sigState'[p] = "stable"
  /\ sdp'[p] = NoSdp
  /\ dataChannel'[p] = "connecting"
  /\ chain'[p] = <<>>

\* the step closes p's connection and the initialization of the new one throws
ClosedNotRecreated(p) ==
  /\ peerConnection'[p] = peerConnection[p]
  /\ sigState'[p] = "closed"
  /\ dataChannel'[p] = "closed"

\* the step closes or replaces p's connection
RecoveryStep(p) ==
  \/ peerConnection'[p] # peerConnection[p]
  \/ sigState'[p] = "closed" /\ sigState[p] # "closed"

\* the run at the head of p's operations chain belongs to handler k and awaits
\* one of ops
Awaiting(p, k, ops) ==
  chain[p] # <<>> /\ Head(chain[p]).kind = k /\ Head(chain[p]).op \in ops

\* the step ends the media capture awaited inside p's handleOffer
CaptureInHandleOfferEnds(p) ==
  \E c \in gum[p] : c.kind = "handleOffer" /\ c \notin gum'[p]

C15_OneTrackPerSlotAfterRecovery ==
  \A p \in Peers :
    (peerConnection[p] > 1 /\ sigState[p] # "closed" /\ localStream[p]) =>
      /\ audioTransceiver[p] # "none"
      /\ videoTransceiver[p] # "none"
      /\ extraSenders[p] = 0

\* ------------------------------------------------------------- C16
\* C16: a step that closes or recreates p's connection emits no envelope (no
\* join, no chat-message, nothing on the data channel), delivers no chat
\* message, and leaves p's socket, roomId, userId, local stream, callbacks and
\* roster as they were.
C16_RecoveryFrame ==
  [][\A p \in Peers :
       RecoveryStep(p) =>
         /\ sent' = sent
         /\ net'[Other(p)] = net[Other(p)]
         /\ dc' = dc
         /\ chatMessages' = chatMessages
         /\ chatCalls' = chatCalls
         /\ socket'[p] = socket[p]
         /\ roomId'[p] = roomId[p]
         /\ userId'[p] = userId[p]
         /\ localStream'[p] = localStream[p]
         /\ callbacks'[p] = callbacks[p]
         /\ roster'[p] = roster[p]]_vars

\* a service that sent a call-user envelope, holds its
\* local stream, and is on its second connection with nothing sent since
C16_Witness ==
  \E p \in Peers :
    /\ peerConnection[p] = 2
    /\ console[p] # <<>> /\ console[p][Len(console[p])] = "conflict"
    /\ localStream[p]
    /\ Len(sent[p]) = 2 /\ sent[p][1].type = "join" /\ sent[p][2].type = "call-user"
    /\ socket[p] = 1 /\ roomId[p] = Room /\ callbacks[p]

\* ------------------------------------------------------------- C17
\* the step hands p's handler an offer or answer envelope without sdp, without
\* sdp.type or without sdp.sdp
MalformedArrives(p) ==
  /\ Arrives(p, "offer") \/ Arrives(p, "answer")
  /\ \/ Head(net[p]).sdp = None
     \/ Head(net[p]).sdp.type = ""
     \/ Head(net[p]).sdp.by = 0

\* C17: a malformed offer or answer envelope is dropped before any use: the
\* receiver's connection, signaling state, descriptions, isPolite,
\* ignoreOffer, makingOffer, local stream, suspended runs and media captures,
\* track slots and data channel stay as they were, no envelope is emitted and
\* the connection is not recreated; the drop is only logged.
C17_MalformedDropped ==
  [][\A p \in Peers :
       MalformedArrives(p) =>
         /\ PeerUnchanged(p)
         /\ rebuilt' = rebuilt
         /\ net'[Other(p)] = net[Other(p)]
         /\ dc' = dc
         /\ offerLog' = offerLog
         /\ ~RecoveryStep(p)
         /\ peerConnection[p] # 0 => Logged(p, "invalid")]_vars

\* a service that sent its offer and then dropped a malformed envelope
C17_Witness ==
  \E p \in Peers :
    /\ console[p] = <<"Negotiationneeded: offer sent", "invalid">>
    /\ sigState[p] = "have-local-offer"
    /\ net[p] = <<>> /\ chain[p] = <<>>
    /\ offerLog[p] = <<>>
    /\ ~ignoreOffer[p] /\ ~isPolite[p]

\* ------------------------------------------------------------- C18
\* the envelopes p has emitted that are still in flight or were consumed by
\* the server
EmittedBy(p) ==
  {sent[p][i] : i \in 1..Len(sent[p])} \cup
  {net[Other(p)][i] : i \in 1..Len(net[Other(p)])}

ChatCalled(p) == chatCalls'[p] = chatCalls[p] + 1 /\ socket[p] # 0

\* the step puts exactly one message on the data channel towards q
OneOnDataChannel(q) ==
  /\ Len(dc'[q]) = Len(dc[q]) + 1
  /\ \A i \in 1..Len(dc[q]) : dc'[q][i] = dc[q][i]
  /\ Parse(dc'[q][Len(dc'[q])]).message \in Texts

\* the step emits exactly one chat-message envelope towards q
OneOnSignaling(q) ==
  /\ Len(net'[q]) = Len(net[q]) + 1
  /\ \A i \in 1..Len(net[q]) : net'[q][i] = net[q][i]
  /\ net'[q][Len(net'[q])].type = "chat-message"
  /\ net'[q][Len(net'[q])].message \in Texts

\* C19: each sendChatMessage call sends the message over exactly one path,
\* chosen by the data channel's readiness at the time of the call: over the
\* data channel if and only if it is open, otherwise over the signaling
\* socket; never both, never neither.
C19_ExactlyOneChatPath ==
  [][\A p \in Peers :
       ChatCalled(p) =>
         IF dataChannel[p] = "open"
         THEN OneOnDataChannel(Other(p)) /\ net' = net /\ sent' = sent
         ELSE OneOnSignaling(Other(p)) /\ dc' = dc /\ sent' = sent]_vars

\* a service that sent its first message before its data channel was open and
\* its second one after: one is in flight on each path
C19_Witness ==
  \E p \in Peers :
    /\ chatCalls[p] = 2
    /\ dataChannel[p] = "open"
    /\ Len(dc[Other(p)]) = 1
    /\ Len(net[Other(p)]) = 1 /\ net[Other(p)][1].type = "chat-message"

\* ------------------------------------------------------------- C20
\* the messages handed to onChatMessage at p so far
Delivered(p) == {chatMessages[p][i] : i \in 1..Len(chatMessages[p])}

\* C20: two messages with the same sender and text handed to the receiver's
\* onChatMessage have the same set of fields (sender, senderId, message,
\* time), whichever path each of them took.
C20_SameShapeOnBothPaths ==
  \A p \in Peers : \A m1, m2 \in Delivered(p) :
    (m1.sender = m2.sender /\ m1.message = m2.message) =>
      /\ DOMAIN m1 = DOMAIN m2
      /\ DOMAIN m1 = {"sender", "senderId", "message", "time"}

\* ------------------------------------------------------------- C21
\* the texts of the messages from sender that onChatMessage at p was handed,
\* oldest first
RECURSIVE TextsFrom(_, _)
TextsFrom(log, sender) ==
  IF log = <<>> THEN <<>>
  ELSE IF Head(log).sender = sender
       THEN <<Head(log).message>> \o TextsFrom(Tail(log), sender)
       ELSE TextsFrom(Tail(log), sender)

\* any two different texts observed one after the other were sent in that
\* order
SameOrder(observed, sentTexts) ==
  \A i, j \in 1..Len(observed) :
    (i < j /\ observed[i] # observed[j]) =>
      \E k, l \in 1..Len(sentTexts) :
        k < l /\ sentTexts[k] = observed[i] /\ sentTexts[l] = observed[j]

\* C21: chat ordering.  For each sender, the receiver observes that sender's
\* messages in the order in which they were passed to sendChatMessage, also
\* when the data channel opened between two sends.
C21_ChatOrderPerSender ==
  \A p \in Peers :
    SameOrder(TextsFrom(chatMessages[p], userId[Other(p)]), chatSent[Other(p)])

\* ------------------------------------------------------------- C22
\* C22: roster replacement.  The roster handed to the screen is exactly the
\* clients list of the room:update / joined data handled last, the empty list
\* when that data had no clients field and before any was handled; nothing of
\* an earlier roster stays in it.
C22_RosterIsLastClients ==
  \A p \in Peers :
    roster[p] = (IF roomEnvelope[p].handled /\ roomEnvelope[p].hasClients
                 THEN roomEnvelope[p].clients
                 ELSE <<>>)

\* one service was last handed a roster of two clients, the other one data
\* without a clients field
C22_Witness ==
  \E p \in Peers :
    /\ roster[p] = <<1, 2>>
    /\ roomEnvelope[p] = [handled |-> TRUE, hasClients |-> TRUE, clients |-> <<1, 2>>]
    /\ roomEnvelope[Other(p)].handled /\ ~roomEnvelope[Other(p)].hasClients
    /\ roster[Other(p)] = <<>>
    /\ events = 0

\* ------------------------------------------------------------- C23
\* the call event that corresponds to the inbound envelope e
CallEventFor(e) ==
  CASE e.type = "incoming-call" ->
         [event |-> "incoming-call", caller |-> e.caller,
          callerSocketId |-> e.callerSocketId]
    [] e.type = "call-accepted" -> [event |-> "call-accepted", accepter |-> e.accepter]
    [] e.type = "call-rejected" -> [event |-> "call-rejected", rejecter |-> e.rejecter]
    [] e.type = "call-ended" -> [event |-> "call-ended", ender |-> e.ender]
    [] e.type = "user-disconnected" ->
         [event |-> "user-left", userId |-> e.disconnectedSocket]

\* the step hands p's handler a call-lifecycle envelope
CallEnvelopeArrives(p) ==
  \E ty \in {"incoming-call", "call-accepted", "call-rejected", "call-ended",
              "user-disconnected"} : Arrives(p, ty)

\* C23: each inbound call-lifecycle envelope yields exactly one call event of
\* the corresponding type (user-left for user-disconnected) carrying the
\* originating peer's identifier, and changes nothing else: negotiation
\* flags, connection, descriptions, suspended runs, roster and chat stay as
\* they were and nothing is emitted.  Call events come from nowhere else.
C23_CallEnvelopeYieldsOneEvent ==
  [][\A p \in Peers :
       /\ CallEnvelopeArrives(p) =>
            /\ callEvents'[p] = Append(callEvents[p], CallEventFor(Head(net[p])))
            /\ PeerUnchanged(p)
            /\ rebuilt' = rebuilt
            /\ session' = session
            /\ net'[Other(p)] = net[Other(p)]
            /\ console' = console
       /\ callEvents'[p] # callEvents[p] => CallEnvelopeArrives(p)]_vars

\* a service that was told of an incoming call and of the other user leaving
\* while its own offer was outstanding
C23_Witness ==
  \E p \in Peers :
    /\ Len(callEvents[p]) = 2
    /\ callEvents[p][1].event = "incoming-call"
    /\ callEvents[p][1].caller = userId[Other(p)]
    /\ callEvents[p][2].event = "user-left"
    /\ callEvents[p][2].userId \in SocketIds
    /\ sigState[p] = "have-local-offer" /\ sdp[p].pl = OfferOf(p)

\* ------------------------------------------------------------- C24
\* the step is a call command of p: the server is sent something
CallCommand(p) == sent'[p] # sent[p]

\* the step sends the server exactly one envelope more
OneMoreSent(p) ==
  /\ Len(sent'[p]) = Len(sent[p]) + 1
  /\ SubSeq(sent'[p], 1, Len(sent[p])) = sent[p]

DisconnectStep(p) == disconnectCalls'[p] = disconnectCalls[p] + 1

ReleaseRank(x) ==
  CASE x = "dataChannel" -> 1
    [] x = "peerConnection" -> 2
    [] x = "localStream" -> 3
    [] x = "socket" -> 4

\* p holds none of the four resources, as in the state a disconnect leaves
HoldsNothing(p) ==
  /\ dataChannel[p] = "null"
  /\ peerConnection[p] = 0
  /\ ~localStream[p]
  /\ socket[p] = 0

Range(q) == {q[i] : i \in 1..Len(q)}

\* what a call of disconnect appended to the release log
ReleasedNow(p) == SubSeq(released'[p], Len(released[p]) + 1, Len(released'[p]))

\* C25: a call of disconnect releases exactly the resources the service
\* holds, in the order data channel, peer connection, local capture,
\* signaling connection, each at most once, and holds none of them
\* afterwards; a disconnect called in the state a disconnect left releases
\* nothing and leaves every field of the service as it was
C25_DisconnectOrderedIdempotent ==
  [][\A p \in Peers : DisconnectStep(p) =>
       /\ Len(released'[p]) >= Len(released[p])
       /\ SubSeq(released'[p], 1, Len(released[p])) = released[p]
       /\ \A i, j \in 1..Len(ReleasedNow(p)) :
            i < j => ReleaseRank(ReleasedNow(p)[i]) < ReleaseRank(ReleasedNow(p)[j])
       /\ ("dataChannel" \in Range(ReleasedNow(p))) = (dataChannel[p] # "null")
       /\ ("peerConnection" \in Range(ReleasedNow(p))) = (peerConnection[p] # 0)
       /\ ("localStream" \in Range(ReleasedNow(p))) = localStream[p]
       /\ ("socket" \in Range(ReleasedNow(p))) = (socket[p] # 0)
       /\ HoldsNothing(p)'
       /\ ~isInitialized'[p]
       /\ (HoldsNothing(p) /\ disconnectCalls[p] > 0 /\ ~isInitialized[p]) =>
            /\ released' = released
            /\ UNCHANGED <<userId, peerConnection, sigState, sdp, makingOffer, ignoreOffer,
                           isPolite, localStream, chain, gum, net, offerSeq, events,
                           offerLog, iceLog, rebuilt, session, console, isInitialized,
                           initPending, initResult, callEvents, uiLocalStream, chatSent,
                           unhandled, roomEnvelope>>]_vars

\* a service that released all four resources in its first disconnect and
\* nothing in its second
C25_Witness ==
  \E p \in Peers :
    /\ disconnectCalls[p] = 2
    /\ released[p] = <<"dataChannel", "peerConnection", "localStream", "socket">>

\* ------------------------------------------------------------- C26
\* disconnect has been called on p and no initialize has run or is running
\* since
TornDown(p) ==
  disconnectCalls[p] > 0 /\ ~isInitialized[p] /\ ~initPending[p] /\ socket[p] = 0

\* C26: once disconnect has been called, no step of the service invokes a
\* consumer callback (the screen's local stream, chat log, roster or call
\* events change) or emits an envelope
C26_NoCallbacksAfterTeardown ==
  [][\A p \in Peers : TornDown(p) =>
       /\ uiLocalStream'[p] => uiLocalStream[p]
       /\ chatMessages'[p] = chatMessages[p]
       /\ roster'[p] = roster[p]
       /\ callEvents'[p] = callEvents[p]
       /\ sent'[p] = sent[p]
       /\ Len(net'[Other(p)]) <= Len(net[Other(p)])]_vars

\* ------------------------------------------------------------- C27
\* C27: in the state right after disconnect makingOffer and ignoreOffer are
\* false
C27_FlagsResetOnTeardown ==
  [][\A p \in Peers : DisconnectStep(p) => ~makingOffer'[p] /\ ~ignoreOffer'[p]]_vars

\* ------------------------------------------------------------- C28
\* the promise of initializeSocket settled without the socket connected
ConnectFailed(p) == initPending[p] /\ ~initPending'[p] /\ socket'[p] # 1

\* C28: when the signaling socket fails to connect, initialize ends with the
\* connect error thrown to its caller, isInitialized stays false and no peer
\* connection or data channel is created
C28_ConnectErrorPropagates ==
  [][\A p \in Peers : ConnectFailed(p) =>
       /\ initResult'[p] = "ConnectError"
       /\ ~isInitialized'[p]
       /\ peerConnection'[p] = 0
       /\ peerConnection'[p] = peerConnection[p]
       /\ dataChannel'[p] = dataChannel[p]
       /\ gum'[p] = gum[p]
       /\ sent'[p] = sent[p]]_vars

\* an initialize that failed on connect_error or the timeout, while the other
\* member's succeeded
C28_Witness ==
  \E p \in Peers :
    /\ initResult[p] = "ConnectError"
    /\ socket[p] = 3
    /\ ~isInitialized[p]
    /\ peerConnection[p] = 0
    /\ initResult[Other(p)] = "ok"
    /\ peerConnection[Other(p)] = 1

\* ------------------------------------------------------------- C29
HandlerKinds == {"handleOffer", "handleAnswer", "handleIceCandidate"}

\* the handler runs of p suspended at an await
HandlerRuns(p) ==
  Cardinality({i \in 1..Len(chain[p]) : chain[p][i].kind \in HandlerKinds}) +
  Cardinality({c \in gum[p] : c.kind = "handleOffer"})

\* the step takes an offer, answer or ice-candidate envelope off p's socket
\* and runs its handler to the first await
EnvelopeHandled(p) ==
  /\ net[p] # <<>>
  /\ Head(net[p]).type \in {"offer", "answer", "ice-candidate"}
  /\ net'[p] = Tail(net[p])

\* the step resumes a suspended handler run of p: the operation at the head of
\* the chain settles, or the capture awaited in handleOffer does
HandlerResumes(p) ==
  \/ /\ chain[p] # <<>>
     /\ Head(chain[p]).kind \in HandlerKinds
     /\ \/ Len(chain'[p]) < Len(chain[p])
        \/ SubSeq(chain'[p], 1, Len(chain[p])) # chain[p]
  \/ CaptureInHandleOfferEnds(p)

\* the step is a failure inside a handler run of p
HandlerFails(p) ==
  /\ HandlerResumes(p)
  /\ \/ Len(console'[p]) > Len(console[p])
        /\ console'[p][Len(console'[p])] \in {"conflict", "other"}
     \/ Len(iceLog'[p]) > Len(iceLog[p])
        /\ iceLog'[p][Len(iceLog'[p])] = "fail"

\* C29: no step of an offer, answer or ice-candidate handler, failing or not,
\* leaves an error outside the handler; a failing step ends its run, and the
\* envelopes waiting on the socket and the socket itself are as before
C29_ErrorsContained ==
  [][\A p \in Peers :
       /\ (EnvelopeHandled(p) \/ HandlerResumes(p)) => unhandled'[p] = unhandled[p]
       /\ HandlerFails(p) =>
            /\ HandlerRuns(p)' < HandlerRuns(p)
            /\ net'[p] = net[p]
            /\ socket'[p] = socket[p]
            /\ socket[p] = 1]_vars

\* handleOffer or handleAnswer failed twice on p (one failure recreated the
\* connection), every run has ended, and no error left a handler
C29_Witness ==
  \E p \in Peers :
    /\ Len(console[p]) >= 2
    /\ \A i \in 1..Len(console[p]) : console[p][i] \in {"conflict", "other"}
    /\ peerConnection[p] >= 2
    /\ chain[p] = <<>>
    /\ gum[p] = {}
    /\ unhandled[p] = 0

\* ------------------------------------------------------------- C30
\* C30: at most one offer, answer or ice-candidate handler is in progress on
\* a peer at any time
C30_OneHandlerAtATime == \A p \in Peers : HandlerRuns(p) <= 1

\* ------------------------------------------------------------- C31
\* senders of p's connection that hold a local audio track: the audio
\* transceiver's, and one of every two senders created by addTrack
AudioBindings(p) ==
  (IF audioTransceiver[p] \in {"replaceTrack", "addTrack"} THEN 1 ELSE 0) +
  (extraSenders[p] \div 2)

VideoBindings(p) ==
  (IF videoTransceiver[p] \in {"replaceTrack", "addTrack"} THEN 1 ELSE 0) +
  (extraSenders[p] \div 2)

\* C31: whatever startLocalStream calls complete on a connection, with or
\* without pre-allocated slots, the connection never has more than one
\* outbound audio binding and one outbound video binding
C31_OneBindingPerKind ==
  \A p \in Peers : AudioBindings(p) <= 1 /\ VideoBindings(p) <= 1

\* ------------------------------------------------------------- C32
\* the socket of p has connected: initialize went past initializeSocket
HasConnected(p) == initResult[p] \in {"ok", "Error"}

\* C32: once the socket has connected, the first envelope the server got on it
\* is the join for the session's room: join is emitted before initialize
\* resolves and before any other envelope
C32_JoinFirstOnConnect ==
  \A p \in Peers :
    HasConnected(p) =>
      /\ sent[p] # <<>>
      /\ sent[p][1] = [type |-> "join", roomId |-> Room]

\* ------------------------------------------------------------- C33
\* answer envelopes created by p's engine on their way to the other member
AnswersFrom(p) ==
  Cardinality({i \in 1..Len(net[Other(p)]) :
                 /\ net[Other(p)][i].type = "answer"
                 /\ net[Other(p)][i].sdp.by = p})

\* the step makes a handleOffer run of p start awaiting op
StartsAwaiting(p, op) ==
  /\ chain'[p] # <<>>
  /\ chain'[p] # chain[p]
  /\ chain[p] = <<>> \/ chain'[p] # Tail(chain[p])
  /\ chain'[p][Len(chain'[p])].kind = "handleOffer"
  /\ chain'[p][Len(chain'[p])].op = op

\* the step takes an offer off p's socket while local media is there
OfferArrivesWithMedia(p) ==
  /\ net[p] # <<>>
  /\ Head(net[p]).type = "offer"
  /\ net'[p] = Tail(net[p])
  /\ localStream[p]

\* C33: a handleOffer run awaits setRemoteDescription only with local media
\* in place, createAnswer only after the offer was applied as the remote
\* description, setLocalDescription(answer) only after createAnswer, and
\* emits the answer only after it was applied as the local description,
\* once, ending the run; a step that fails emits none
C33_AcceptOrder ==
  [][\A p \in Peers :
       /\ StartsAwaiting(p, "setRemote") =>
            /\ localStream'[p]
            /\ OfferArrivesWithMedia(p) \/ CaptureInHandleOfferEnds(p)
       /\ StartsAwaiting(p, "createAnswer") =>
            /\ Awaiting(p, "handleOffer", {"setRemote"})
            /\ RemoteDescription(p)' = Head(chain[p]).sdp
            /\ localStream[p]
       /\ StartsAwaiting(p, "setLocal") =>
            /\ Awaiting(p, "handleOffer", {"createAnswer"})
            /\ chain'[p][Len(chain'[p])].sdp.type = "answer"
            /\ RemoteDescription(p).type = "offer"
       /\ (AnswersFrom(p)' > AnswersFrom(p) /\ chain'[p] # chain[p]) =>
            /\ Awaiting(p, "handleOffer", {"setLocal"})
            /\ chain'[p] = Tail(chain[p])
            /\ AnswersFrom(p)' = AnswersFrom(p) + 1
            /\ net'[Other(p)] =
                 Append(net[Other(p)], Envelope("answer", p, Head(chain[p]).sdp))
            /\ LocalDescription(p)' = Head(chain[p]).sdp
            /\ sdp'[p].cr.type = "offer"
            /\ sigState'[p] = "stable"
            /\ localStream[p]
       /\ (Logged(p, "conflict") \/ Logged(p, "other")) =>
            AnswersFrom(p)' = AnswersFrom(p)]_vars

\* a member that accepted an offer with its media captured, and whose answer
\* is on its way
C33_Witness ==
  \E p \in Peers :
    /\ sdp[p].cl.type = "answer"
    /\ sdp[p].cr.type = "offer"
    /\ localStream[p]
    /\ AnswersFrom(p) = 1
    /\ offerLog[p] # <<>>

\* ------------------------------------------------------------- C34
\* C34: when a handleOffer run of an impolite side calls
\* setRemoteDescription(offer), the side is neither making an offer nor has
\* one outstanding, as it was when the collision check let the offer through
C34_DecisionStillValid ==
  [][\A p \in Peers :
       (StartsAwaiting(p, "setRemote") /\ ~isPolite'[p]) =>
         /\ sigState[p] = "stable"
         /\ ~makingOffer[p]]_vars

\* ------------------------------------------------------------- C35
\* the step is a call of initialize by p
InitializeStep(p) == initPending'[p] /\ ~initPending[p]

\* C35: from a state in which disconnect has released everything, every step
\* that is not a call of initialize leaves the peer connection, the data
\* channel, the local stream and the socket null
C35_ReleasedStaysReleased ==
  [][\A p \in Peers :
       (TornDown(p) /\ HoldsNothing(p) /\ ~InitializeStep(p)) => HoldsNothing(p)']_vars

\* ------------------------------------------------------------- C36
\* C36: when a side is ignoring a dropped offer and the other side has
\* answered the offer it accepted, ignoreOffer eventually becomes false again
C36_IgnoreOfferEventuallyCleared ==
  \A p \in Peers :
    (ignoreOffer[p] /\ AnswersFrom(Other(p)) > 0) ~> ~ignoreOffer[p]

\* ------------------------------------------------------------- C37
\* C37: whatever initialize and disconnect calls are made, a service never
\* has more than one socket that was created and not disconnected
C37_OneLiveSocket == \A p \in Peers : liveSockets[p] <= 1

=============================================================================
